---------------------------- MODULE Spec2Model ----------------------------
(***************************************************************************)
(* A model of kriti-images: the option parser, the value parsers, the     *)
(* filter chain builder, the fit-mode resizer and the transformation      *)
(* engine.                                                                 *)
(*                                                                         *)
(* Go strings are sequences of one-character strings, so that splitting,  *)
(* trimming and number parsing are computed and not assumed.  A nil        *)
(* pointer is the empty sequence and a non-nil pointer a sequence of one   *)
(* element.  Colours are <<r, g, b, a>> with 8-bit channels.               *)
(***************************************************************************)
EXTENDS Integers, Sequences, FiniteSets, TLC

VARIABLES
    optionsStr,   \* the request's option string (route parameter "options")
    src,          \* the stored source image: [w, h, format]
    pc,           \* position of the request handler
    trValues,     \* the parsed operation map (nil or one map kind -> value)
    dest,         \* the destination descriptor (nil or one record)
    err,          \* the error the handler ended with
    filters,      \* the filter sequence getFilters built (nil or one sequence)
    stages,       \* the raster after each filter of g.Draw
    encoded,      \* what formatTo was given (nil or one record)
    prev,         \* results of earlier runs of the same request
    fitArgs,      \* inputs of a direct call of createFitFilter
    fitRes,       \* its result, and the Bounds / Draw of the filter it built
    radiusArg,    \* input of a direct call of CreateBorderRadiusFilter
    radiusRes,    \* its result
    callArg,      \* input of a direct call of another function
    callRes,      \* its result
    heap,         \* the objects calls allocated and share by pointer: address -> object
    calls         \* the calls in progress: each one's position and local values

vars == <<optionsStr, src, pc, trValues, dest, err, filters, stages, encoded,
          prev, fitArgs, fitRes, radiusArg, radiusRes, callArg, callRes, heap, calls>>

-----------------------------------------------------------------------------
\* Bounds of the model

MaxTokens == 2

MaxSrcDim == 4

MaxFitDim == 4

MaxRadiusLen == 3

MaxRuns == 2

-----------------------------------------------------------------------------
\* Strings

Nil == <<>>

Ptr(x) == <<x>>

Min(a, b) == IF a <= b THEN a ELSE b

Max(a, b) == IF a >= b THEN a ELSE b

DigitChars == <<"0", "1", "2", "3", "4", "5", "6", "7", "8", "9">>

IsDigit(c) == \E i \in 1..10 : DigitChars[i] = c

DigitVal(c) == (CHOOSE i \in 1..10 : DigitChars[i] = c) - 1

IsSpace(c) == c \in {" ", "\t", "\n", "\r"}

\* The position of the k-th separator of s, 0 before the first and
\* Len(s) + 1 after the last
SepAt(s, sep, k) ==
    IF k = 0 THEN 0
    ELSE IF k > Cardinality({i \in 1..Len(s) : s[i] = sep}) THEN Len(s) + 1
    ELSE CHOOSE i \in 1..Len(s) :
            s[i] = sep /\ Cardinality({j \in 1..(i - 1) : s[j] = sep}) = k - 1

\* strings.Split(s, sep) for a one-character separator
Split(s, sep) ==
    [k \in 1..(Cardinality({i \in 1..Len(s) : s[i] = sep}) + 1) |->
        SubSeq(s, SepAt(s, sep, k - 1) + 1, SepAt(s, sep, k) - 1)]


RECURSIVE TrimLeft(_)
TrimLeft(s) == IF Len(s) > 0 /\ IsSpace(s[1]) THEN TrimLeft(Tail(s)) ELSE s

RECURSIVE TrimRight(_)
TrimRight(s) ==
    IF Len(s) > 0 /\ IsSpace(s[Len(s)]) THEN TrimRight(SubSeq(s, 1, Len(s) - 1)) ELSE s

\* strings.TrimSpace
TrimSpace(s) == TrimRight(TrimLeft(s))

HasPrefix(s, p) == Len(s) >= Len(p) /\ SubSeq(s, 1, Len(p)) = p

HasSuffix(s, p) == Len(s) >= Len(p) /\ SubSeq(s, Len(s) - Len(p) + 1, Len(s)) = p

TrimPrefix(s, p) == IF HasPrefix(s, p) THEN SubSeq(s, Len(p) + 1, Len(s)) ELSE s

TrimSuffix(s, p) == IF HasSuffix(s, p) THEN SubSeq(s, 1, Len(s) - Len(p)) ELSE s

UpperChars == <<"A", "B", "C", "D", "E", "F", "G", "H", "I", "J", "K", "L", "M",
                "N", "O", "P", "Q", "R", "S", "T", "U", "V", "W", "X", "Y", "Z">>

LowerChars == <<"a", "b", "c", "d", "e", "f", "g", "h", "i", "j", "k", "l", "m",
                "n", "o", "p", "q", "r", "s", "t", "u", "v", "w", "x", "y", "z">>

LowerChar(c) ==
    IF \E i \in 1..26 : UpperChars[i] = c
    THEN LowerChars[CHOOSE i \in 1..26 : UpperChars[i] = c]
    ELSE c

\* strings.ToLower
ToLower(s) == [i \in 1..Len(s) |-> LowerChar(s[i])]

RECURSIVE StrToNat(_)
StrToNat(ds) ==
    IF Len(ds) = 0 THEN 0
    ELSE StrToNat(SubSeq(ds, 1, Len(ds) - 1)) * 10 + DigitVal(ds[Len(ds)])

AllDigits(s) == \A i \in 1..Len(s) : IsDigit(s[i])

\* strconv.Atoi: an optional sign and one or more decimal digits.  The strings
\* of the model have at most nine digits, so the value never overflows.
Atoi(s) ==
    LET signed == Len(s) > 0 /\ s[1] \in {"+", "-"}
        body   == IF signed THEN Tail(s) ELSE s
    IN  IF Len(body) = 0 \/ ~AllDigits(body) THEN [ok |-> FALSE, val |-> 0]
        ELSE [ok |-> TRUE,
              val |-> IF signed /\ s[1] = "-" THEN 0 - StrToNat(body) ELSE StrToNat(body)]

-----------------------------------------------------------------------------
\* String literals of the program

s_flip == <<"f", "l", "i", "p">>

s_blur == <<"b", "l", "u", "r">>

s_brightness == <<"b", "r", "i", "g", "h", "t", "n", "e", "s", "s">>

s_contrast == <<"c", "o", "n", "t", "r", "a", "s", "t">>

s_fit == <<"f", "i", "t">>

s_gamma == <<"g", "a", "m", "m", "a">>

s_rotate == <<"r", "o", "t", "a", "t", "e">>

s_saturation == <<"s", "a", "t", "u", "r", "a", "t", "i", "o", "n">>

s_sharpen == <<"s", "h", "a", "r", "p", "e", "n">>

s_background == <<"b", "a", "c", "k", "g", "r", "o", "u", "n", "d">>

s_width == <<"w", "i", "d", "t", "h">>

s_height == <<"h", "e", "i", "g", "h", "t">>

s_format == <<"f", "o", "r", "m", "a", "t">>

s_quality == <<"q", "u", "a", "l", "i", "t", "y">>

s_radius == <<"r", "a", "d", "i", "u", "s">>

s_jpg == <<"j", "p", "g">>

s_jpeg == <<"j", "p", "e", "g">>

s_png == <<"p", "n", "g">>

s_webp == <<"w", "e", "b", "p">>

s_scaledown == <<"s", "c", "a", "l", "e", "d", "o", "w", "n">>

s_contain == <<"c", "o", "n", "t", "a", "i", "n">>

s_cover == <<"c", "o", "v", "e", "r">>

s_crop == <<"c", "r", "o", "p">>

s_pad == <<"p", "a", "d">>

s_squeeze == <<"s", "q", "u", "e", "e", "z", "e">>

s_px == <<"p", "x">>

s_rgb == <<"r", "g", "b">>

s_transparent == <<"t", "r", "a", "n", "s", "p", "a", "r", "e", "n", "t">>

s_black == <<"b", "l", "a", "c", "k">>

s_white == <<"w", "h", "i", "t", "e">>

s_red == <<"r", "e", "d">>

s_green == <<"g", "r", "e", "e", "n">>

s_blue == <<"b", "l", "u", "e">>

s_yellow == <<"y", "e", "l", "l", "o", "w">>

s_cyan == <<"c", "y", "a", "n">>

s_magenta == <<"m", "a", "g", "e", "n", "t", "a">>

s_gray == <<"g", "r", "a", "y">>

s_orange == <<"o", "r", "a", "n", "g", "e">>

s_purple == <<"p", "u", "r", "p", "l", "e">>

s_pink == <<"p", "i", "n", "k">>

s_brown == <<"b", "r", "o", "w", "n">>

s_hv == <<"h", "v">>

s_vh == <<"v", "h">>

s_cw == <<"c", "w">>

s_right == <<"r", "i", "g", "h", "t">>

s_ccw == <<"c", "c", "w">>

s_left == <<"l", "e", "f", "t">>

s_90 == <<"9", "0">>

s_180 == <<"1", "8", "0">>

s_270 == <<"2", "7", "0">>

s_m90 == <<"-", "9", "0">>

-----------------------------------------------------------------------------
\* Value parsers (internal/transformations/value_parsers.go)

\* Numbers with a fraction are kept as integers in units of 10^-FracDigits.
FracDigits == 5

Pow10(n) == 10 ^ n

Unit == Pow10(FracDigits)

\* The number of an optional sign and the parts around the decimal point
ParseDecimal(negative, parts) ==
    LET ip  == parts[1]
        fp  == IF Len(parts) = 2 THEN parts[2] ELSE <<>>
        fpN == SubSeq(fp \o [i \in 1..FracDigits |-> "0"], 1, FracDigits)
    IN  IF Len(parts) > 2 \/ ~AllDigits(ip) \/ ~AllDigits(fp) \/ Len(ip) + Len(fp) = 0
        THEN [ok |-> FALSE, val |-> 0]
        ELSE [ok |-> TRUE,
              val |-> IF negative THEN 0 - (StrToNat(ip) * Unit + StrToNat(fpN))
                      ELSE StrToNat(ip) * Unit + StrToNat(fpN)]

\* strconv.ParseFloat for decimal notation without exponent: an optional sign,
\* digits with an optional point, at least one digit.  The strings of the model
\* have at most FracDigits fraction digits, so the value is exact.
ParseFloat(s) ==
    IF Len(s) > 0 /\ s[1] \in {"+", "-"}
    THEN ParseDecimal(s[1] = "-", Split(Tail(s), "."))
    ELSE ParseDecimal(FALSE, Split(s, "."))

Pow2(n) == 2 ^ n

RECURSIVE FloorLog2(_)
FloorLog2(k) == IF k <= 1 THEN 0 ELSE 1 + FloorLog2(k \div 2)

Abs(x) == IF x < 0 THEN 0 - x ELSE x

\* The float32 nearest to x where it is a whole number n: x of magnitude
\* 2^e..2^(e+1) lies less than half a float32 step, 2^(e-24), from n.  Every
\* other x is kept: its float32 is off by less than the model's unit, and the
\* code compares with whole numbers and halves only.
Float32Near(x, n, e) ==
    IF Abs(x) >= Unit /\ e <= 24 /\ Abs(Abs(x) - n * Unit) <= (Unit - 1) \div Pow2(24 - e)
    THEN IF x < 0 THEN 0 - n * Unit ELSE n * Unit
    ELSE x

\* float32(x), and the float64 that strconv.ParseFloat(s, 32) returns
Float32(x) ==
    Float32Near(x, (Abs(x) + Unit \div 2) \div Unit, FloorLog2(Abs(x) \div Unit))

\* parseFloatValue, lines 151-156: parsed is the result of strconv.ParseFloat
floatOrDefault(parsed, min, max, defaultVal) ==
    IF ~parsed.ok \/ Float32(parsed.val) < min \/ Float32(parsed.val) > max
    THEN defaultVal ELSE Float32(parsed.val)

\* parseFloatValue(value, min, max, defaultVal); min, max, defaultVal and the
\* result are in units of 10^-FracDigits
parseFloatValue(value, min, max, defaultVal) ==
    IF value = <<>> THEN defaultVal
    ELSE floatOrDefault(ParseFloat(value), min, max, defaultVal)


parseIntValue_NoUpperBound(value, min, max) ==
    IF value = <<>> THEN [val |-> 0, err |-> "empty"]
    ELSE LET parsed == Atoi(value)
         IN  IF ~parsed.ok THEN [val |-> 0, err |-> "notint"]
             ELSE IF parsed.val < min THEN [val |-> 0, err |-> "range"]
             ELSE [val |-> parsed.val, err |-> "none"]

\* parseIntValue(value, min, max): (int, error)
parseIntValue(value, min, max) ==
    IF value = <<>> THEN [val |-> 0, err |-> "empty"]
    ELSE LET parsed == Atoi(value)
         IN  IF ~parsed.ok THEN [val |-> 0, err |-> "notint"]
             ELSE IF parsed.val < min \/ parsed.val > max THEN [val |-> 0, err |-> "range"]
             ELSE [val |-> parsed.val, err |-> "none"]

\* parseFormatValue(value): (string, error)
parseFormatValue(value) ==
    LET format == ToLower(TrimSpace(value))
    IN  IF format \in {s_jpg, s_jpeg} THEN [val |-> s_jpeg, err |-> "none"]
        ELSE IF format = s_png THEN [val |-> s_png, err |-> "none"]
        ELSE IF format = s_webp THEN [val |-> s_webp, err |-> "none"]
        ELSE [val |-> <<>>, err |-> "unsupported"]

\* math.Mod(x, 360) on values in units of 10^-FracDigits: the result has the
\* sign of x
ModAngle(x) ==
    IF x >= 0 THEN x % (360 * Unit) ELSE 0 - ((0 - x) % (360 * Unit))

\* parseRotateAngle, lines 190-215: the angle of a number, in [0, 360)
rotateNumber(parsed) ==
    IF ~parsed.ok THEN [val |-> 0, err |-> "notnumber"]
    ELSE [val |-> Float32(IF ModAngle(Float32(parsed.val)) < 0
                          THEN ModAngle(Float32(parsed.val)) + 360 * Unit
                          ELSE ModAngle(Float32(parsed.val))),
          err |-> "none"]

\* parseRotateAngle, lines 178-187: key is the value trimmed and in lower case
rotateKeyword(key, value) ==
    IF key \in {s_90, s_cw, s_right} THEN [val |-> 90 * Unit, err |-> "none"]
    ELSE IF key \in {s_180, s_flip} THEN [val |-> 180 * Unit, err |-> "none"]
    ELSE IF key \in {s_270, s_m90, s_ccw, s_left} THEN [val |-> 270 * Unit, err |-> "none"]
    ELSE IF key = <<"0">> THEN [val |-> 0, err |-> "none"]
    ELSE rotateNumber(ParseFloat(value))

\* parseRotateAngle(value): (float32, error); the angle in units of 10^-FracDigits
parseRotateAngle(value) == rotateKeyword(ToLower(TrimSpace(value)), value)

\* parseBorderRadiusValue on a parsed number.  After a value that is in range
\* the function returns the value together with the error "unexpected number
\* of radius values" (line 265).
radiusValue(parsed, isPercent) ==
    IF ~parsed.ok \/ parsed.val < 0 \/ (isPercent /\ parsed.val > 50 * Unit)
    THEN [val |-> Nil, err |-> IF isPercent THEN "percentrange" ELSE "pixelrange"]
    ELSE [val |-> Ptr([Value |-> parsed.val, IsPercent |-> isPercent]),
          err |-> "unexpected number of radius values"]

\* parseBorderRadiusValue(value): (*BorderRadiusValue, error)
parseBorderRadiusValue(value) ==
    IF value = <<>> THEN [val |-> Nil, err |-> "empty"]
    ELSE IF HasSuffix(value, <<"%">>)
    THEN radiusValue(ParseFloat(TrimSuffix(value, <<"%">>)), TRUE)
    ELSE radiusValue(ParseFloat(TrimSuffix(value, s_px)), FALSE)

-----------------------------------------------------------------------------
\* Colour parser (internal/transformations/value_parsers.go)

RGBA(r, g, b, a) == <<r, g, b, a>>

HexChars == <<"0", "1", "2", "3", "4", "5", "6", "7", "8", "9",
              "a", "b", "c", "d", "e", "f">>

IsHex(c) == \E i \in 1..16 : HexChars[i] = LowerChar(c)

HexVal(c) == (CHOOSE i \in 1..16 : HexChars[i] = LowerChar(c)) - 1

\* The bytes a percent escape of the model's strings can name
UnescapeTable ==
    [code \in {32, 35, 37, 40, 41, 44} |->
        CASE code = 32 -> " "
          [] code = 35 -> "#"
          [] code = 37 -> "%"
          [] code = 40 -> "("
          [] code = 41 -> ")"
          [] code = 44 -> ","]

RECURSIVE UnescapeFrom(_, _)
UnescapeFrom(s, i) ==
    IF i > Len(s) THEN [ok |-> TRUE, val |-> <<>>]
    ELSE IF s[i] = "%"
    THEN IF i + 2 > Len(s) \/ ~IsHex(s[i + 1]) \/ ~IsHex(s[i + 2])
         THEN [ok |-> FALSE, val |-> <<>>]
         ELSE LET code == HexVal(s[i + 1]) * 16 + HexVal(s[i + 2])
                  rest == UnescapeFrom(s, i + 3)
              IN  IF code \notin DOMAIN UnescapeTable
                  THEN [ok |-> rest.ok, val |-> <<"?">> \o rest.val]
                  ELSE [ok |-> rest.ok, val |-> <<UnescapeTable[code]>> \o rest.val]
    ELSE LET rest == UnescapeFrom(s, i + 1)
         IN  [ok |-> rest.ok, val |-> <<IF s[i] = "+" THEN " " ELSE s[i]>> \o rest.val]

\* url.QueryUnescape
QueryUnescape(s) == UnescapeFrom(s, 1)

AllHex(s) == \A i \in 1..Len(s) : IsHex(s[i])

\* parseHexColor, lines 44-75: hex is the value without its leading #
hexDigits(hex) ==
    LET v(i) == HexVal(hex[i])
    IN  IF Len(hex) \notin {3, 6, 8} THEN [val |-> Nil, err |-> "hexlength"]
        ELSE IF ~AllHex(hex) THEN [val |-> Nil, err |-> "hexdigits"]
        ELSE IF Len(hex) = 3
        THEN [val |-> Ptr(RGBA(v(1) * 17, v(2) * 17, v(3) * 17, 255)), err |-> "none"]
        ELSE [val |-> Ptr(RGBA(v(1) * 16 + v(2), v(3) * 16 + v(4), v(5) * 16 + v(6),
                               IF Len(hex) = 8 THEN v(7) * 16 + v(8) ELSE 255)),
              err |-> "none"]

\* parseHexColor(hex): (color.Color, error)
parseHexColor(hexIn) == hexDigits(TrimPrefix(hexIn, <<"#">>))


NamedColors ==
    << <<s_transparent, RGBA(0, 0, 0, 0)>>,
       <<s_black, RGBA(0, 0, 0, 255)>>,
       <<s_white, RGBA(255, 255, 255, 255)>>,
       <<s_red, RGBA(255, 0, 0, 255)>>,
       <<s_green, RGBA(0, 128, 0, 255)>>,
       <<s_blue, RGBA(0, 0, 255, 255)>>,
       <<s_yellow, RGBA(255, 255, 0, 255)>>,
       <<s_cyan, RGBA(0, 255, 255, 255)>>,
       <<s_magenta, RGBA(255, 0, 255, 255)>>,
       <<s_gray, RGBA(128, 128, 128, 255)>>,
       <<s_orange, RGBA(255, 165, 0, 255)>>,
       <<s_purple, RGBA(128, 0, 128, 255)>>,
       <<s_pink, RGBA(255, 192, 203, 255)>>,
       <<s_brown, RGBA(165, 42, 42, 255)>> >>

\* The colour of a name in lower case, or nil
namedColor(name) ==
    IF \E i \in 1..Len(NamedColors) : NamedColors[i][1] = name
    THEN Ptr(NamedColors[CHOOSE i \in 1..Len(NamedColors) : NamedColors[i][1] = name][2])
    ELSE Nil

\* parseNamedColor(name): the colour, or nil
parseNamedColor(name) == namedColor(ToLower(name))

RECURSIVE DigitRunEnd(_, _)
DigitRunEnd(s, i) == IF i <= Len(s) /\ IsDigit(s[i]) THEN DigitRunEnd(s, i + 1) ELSE i

IsRegexSpace(c) == c \in {" ", "\t", "\n", "\f", "\r"}

RECURSIVE SpaceRunEnd(_, _)
SpaceRunEnd(s, i) == IF i <= Len(s) /\ IsRegexSpace(s[i]) THEN SpaceRunEnd(s, i + 1) ELSE i

RECURSIVE SepRunEnd(_, _)
SepRunEnd(s, i) ==
    IF i <= Len(s) /\ (IsRegexSpace(s[i]) \/ s[i] = ",") THEN SepRunEnd(s, i + 1) ELSE i

NoMatch == [ok |-> FALSE, m1 |-> <<>>, m2 |-> <<>>, m3 |-> <<>>, m4 |-> <<>>]

CharAt(s, i) == IF i >= 1 /\ i <= Len(s) THEN s[i] ELSE ""

\* The ends of the runs the expression walks after its opening bracket:
\* k = <<d1, e1, d2, e2, d3, e3, d4, e4>> where group j is s[dj..ej-1]
RECURSIVE ScanRGB(_, _)
ScanRGB(s, k) ==
    IF Len(k) = 8 THEN k
    ELSE IF Len(k) % 2 = 1 THEN ScanRGB(s, Append(k, DigitRunEnd(s, k[Len(k)])))
    ELSE ScanRGB(s, Append(k, SepRunEnd(s, k[Len(k)])))

\* The end of the optional group (\d+(?:\.\d+)?) whose digits end at e4
FractionEnd(s, e4) ==
    IF CharAt(s, e4) = "." /\ DigitRunEnd(s, e4 + 1) > e4 + 1
    THEN DigitRunEnd(s, e4 + 1) ELSE e4

\* The groups of a match whose runs are k and which closes at position close
MatchGroups(s, k, hasA, close) ==
    IF k[2] = k[1] \/ k[3] = k[2] \/ k[4] = k[3] \/ k[5] = k[4] \/ k[6] = k[5]
       \/ CharAt(s, close) # ")"
    THEN NoMatch
    ELSE [ok |-> TRUE, m1 |-> SubSeq(s, k[1], k[2] - 1), m2 |-> SubSeq(s, k[3], k[4] - 1),
          m3 |-> SubSeq(s, k[5], k[6] - 1),
          m4 |-> IF hasA THEN SubSeq(s, k[7], FractionEnd(s, k[8]) - 1) ELSE <<>>]

MatchRuns(s, k) ==
    IF k[7] > k[6] /\ k[8] > k[7]
    THEN MatchGroups(s, k, TRUE, SpaceRunEnd(s, FractionEnd(s, k[8])))
    ELSE MatchGroups(s, k, FALSE, SpaceRunEnd(s, k[6]))

\* A match of rgba?\(\s*(\d+)[\s,]+(\d+)[\s,]+(\d+)(?:[\s,]+(\d+(?:\.\d+)?))?\s*\)
\* that starts at position p.  Adjacent elements of the expression accept
\* disjoint characters, so the greedy match is the only candidate.
MatchRGBAt(s, p) ==
    IF ~HasPrefix(SubSeq(s, p, Len(s)), s_rgb) THEN NoMatch
    ELSE IF CharAt(s, p + 3) = "(" THEN MatchRuns(s, ScanRGB(s, <<SpaceRunEnd(s, p + 4)>>))
    ELSE IF CharAt(s, p + 3) = "a" /\ CharAt(s, p + 4) = "("
    THEN MatchRuns(s, ScanRGB(s, <<SpaceRunEnd(s, p + 5)>>))
    ELSE NoMatch

\* rgbRegex.FindStringSubmatch: the leftmost match
RECURSIVE FindRGBFrom(_, _)
FindRGBNext(s, p, m) == IF m.ok THEN m ELSE FindRGBFrom(s, p + 1)

FindRGBFrom(s, p) == IF p > Len(s) THEN NoMatch ELSE FindRGBNext(s, p, MatchRGBAt(s, p))

FindRGB(s) == FindRGBFrom(s, 1)

\* parseRGBColor, lines 128-135: the alpha of the fourth group, 255 without one
rgbAlpha(m4, aFloat) ==
    IF m4 = <<>> \/ ~aFloat.ok THEN 255
    ELSE IF aFloat.val <= Unit THEN (aFloat.val * 255) \div Unit
    ELSE aFloat.val \div Unit

\* parseRGBColor, lines 105-143: m is the match of the expression
rgbColor(m) ==
    LET clamp(x) == IF x > 255 THEN 255 ELSE x
    IN  IF ~m.ok THEN [val |-> Nil, err |-> "rgbformat"]
        ELSE [val |-> Ptr(RGBA(clamp(Atoi(m.m1).val), clamp(Atoi(m.m2).val),
                               clamp(Atoi(m.m3).val),
                               clamp(rgbAlpha(m.m4, ParseFloat(m.m4))))),
              err |-> "none"]

\* parseRGBColor(rgbStr): (color.Color, error)
parseRGBColor(rgbStr) == rgbColor(FindRGB(rgbStr))

\* parseBackgroundColor, lines 24-37: decoded is the result of url.QueryUnescape
backgroundColor(decoded, named) ==
    IF ~decoded.ok THEN [val |-> Nil, err |-> "decode"]
    ELSE IF HasPrefix(decoded.val, <<"#">>) THEN parseHexColor(decoded.val)
    ELSE IF named # Nil THEN [val |-> named, err |-> "none"]
    ELSE IF HasPrefix(decoded.val, s_rgb) THEN parseRGBColor(decoded.val)
    ELSE [val |-> Nil, err |-> "unsupported"]

backgroundNamed(decoded) == backgroundColor(decoded, parseNamedColor(decoded.val))

\* parseBackgroundColor(value): (color.Color, error)
parseBackgroundColor(value) == backgroundNamed(QueryUnescape(value))


-----------------------------------------------------------------------------
\* Option parser (internal/server/routes/route_transform.go)

NoError == [kind |-> "none", detail |-> <<>>]

Error(kind, detail) == [kind |-> kind, detail |-> detail]

\* The option keys and the TransformationOption each one maps to
OptionKeys ==
    << <<s_flip, "Flip">>, <<s_blur, "Blur">>, <<s_brightness, "Brightness">>,
       <<s_contrast, "Contrast">>, <<s_fit, "Fit">>, <<s_gamma, "Gamma">>,
       <<s_rotate, "Rotate">>, <<s_saturation, "Saturation">>, <<s_sharpen, "Sharpen">>,
       <<s_background, "Background">>, <<s_width, "Width">>, <<s_height, "Height">>,
       <<s_format, "Format">>, <<s_quality, "Quality">>, <<s_radius, "BorderRadius">> >>

\* The TransformationOption of a key, "" for a key that is not an option
OptionOf(key) ==
    IF \E i \in 1..Len(OptionKeys) : OptionKeys[i][1] = key
    THEN OptionKeys[CHOOSE i \in 1..Len(OptionKeys) : OptionKeys[i][1] = key][2]
    ELSE ""

\* processOption, lines 150-185: key and value are the trimmed parts
optionOfKey(key, value, t) ==
    IF t = ""
    THEN [t |-> "", value |-> <<>>, err |-> Error("UnknownOption", key)]
    ELSE [t |-> t, value |-> value, err |-> NoError]

processParts_AtLeastTwoParts(optStr, parts) ==
    IF Len(parts) < 2
    THEN [t |-> "", value |-> <<>>, err |-> Error("MalformedOption", optStr)]
    ELSE optionOfKey(TrimSpace(parts[1]), TrimSpace(parts[2]), OptionOf(TrimSpace(parts[1])))

\* processOption, lines 144-148: parts is strings.Split(optStr, "=")
processParts(optStr, parts) ==
    IF Len(parts) # 2
    THEN [t |-> "", value |-> <<>>, err |-> Error("MalformedOption", optStr)]
    ELSE optionOfKey(TrimSpace(parts[1]), TrimSpace(parts[2]), OptionOf(TrimSpace(parts[1])))

\* processOption(optStr): (TransformationOption, string, error)
processOption(optStr) == processParts(optStr, Split(optStr, "="))


\* color.Transparent is a color.Alpha16; the colour parser returns color.RGBA
Transparent == [model |-> "Alpha16", c |-> RGBA(0, 0, 0, 0)]

ColorRGBA(c) == [model |-> "RGBA", c |-> c]

\* The descriptor getContextFromString starts from
InitialDestination ==
    [BgColor |-> Transparent, Width |-> 0, Height |-> 0, Format |-> <<>>, Quality |-> 100]

MapPut_KeepFirst(m, k, v) ==
    [x \in DOMAIN m \cup {k} |-> IF x \in DOMAIN m THEN m[x] ELSE v]

MapPut(m, k, v) == [x \in DOMAIN m \cup {k} |-> IF x = k THEN v ELSE m[x]]

EmptyMap == [x \in {} |-> <<>>]

ParseFailed(e) == [tr |-> Nil, dest |-> Nil, err |-> e]

Parsed(tr, destination) == [tr |-> Ptr(tr), dest |-> Ptr(destination), err |-> NoError]

\* The cases of the switch of getContextFromString that fill the descriptor
setBackground(tr, destination, value, c) ==
    IF c.err # "none" THEN ParseFailed(Error("InvalidBackground", value))
    ELSE Parsed(tr, [destination EXCEPT !.BgColor = ColorRGBA(c.val[1])])

setWidth(tr, destination, value, n) ==
    IF n.err # "none" THEN ParseFailed(Error("InvalidWidth", value))
    ELSE Parsed(tr, [destination EXCEPT !.Width = n.val])

setHeight(tr, destination, value, n) ==
    IF n.err # "none" THEN ParseFailed(Error("InvalidHeight", value))
    ELSE Parsed(tr, [destination EXCEPT !.Height = n.val])

setFormat(tr, destination, value, f) ==
    IF f.err # "none" THEN ParseFailed(Error("InvalidFormat", value))
    ELSE Parsed(tr, [destination EXCEPT !.Format = f.val])

setQuality(tr, destination, value, n) ==
    IF n.err # "none" THEN ParseFailed(Error("InvalidQuality", value))
    ELSE Parsed(tr, [destination EXCEPT !.Quality = n.val])

\* One pass of the loop of getContextFromString: o is the result of processOption
parseOption(tr, destination, o) ==
    IF o.err # NoError THEN ParseFailed(o.err)
    ELSE CASE o.t = "Background" ->
                 setBackground(tr, destination, o.value, parseBackgroundColor(o.value))
           [] o.t = "Width" -> setWidth(tr, destination, o.value, parseIntValue(o.value, 1, 10000))
           [] o.t = "Height" ->
                 setHeight(tr, destination, o.value, parseIntValue(o.value, 1, 10000))
           [] o.t = "Format" -> setFormat(tr, destination, o.value, parseFormatValue(o.value))
           [] o.t = "Quality" -> setQuality(tr, destination, o.value, parseIntValue(o.value, 1, 100))
           [] OTHER -> Parsed(MapPut(tr, o.t, o.value), destination)

\* The loop of getContextFromString from the i-th option on
RECURSIVE parseOptions(_, _, _, _)
parseNext(options, i, r) ==
    IF r.err # NoError THEN r ELSE parseOptions(options, i + 1, r.dest[1], r.tr[1])

parseOptions(options, i, destination, tr) ==
    IF i > Len(options) THEN Parsed(tr, destination)
    ELSE parseNext(options, i, parseOption(tr, destination, processOption(options[i])))


\* getContextFromString(optionsStr): (map, *DestinationImage, error)
getContextFromString(str) ==
    parseOptions(Split(str, ","), 1, InitialDestination, EmptyMap)

-----------------------------------------------------------------------------
\* float64 arithmetic on small positive integers, computed with integers.
\*
\* fl(a/b) is a/b rounded to 53 bits: with Es the exponent of a/b and
\* n = 52 - Es, fl(a/b) = M / 2^n for M = a*2^n/b rounded half to even, and
\* the residue a*2^n - M*b says on which side of a/b it lies.  c * fl(a/b)
\* then differs from c*a/b by c*residue / (b*2^n), and rounds to a lower
\* float64 than a representable target q exactly when that difference is
\* more than half the gap below q.

RECURSIVE ExpUp(_, _, _)
ExpUp(a, b, e) == IF b * Pow2(e + 1) <= a THEN ExpUp(a, b, e + 1) ELSE e

RECURSIVE ExpDown(_, _, _)
ExpDown(a, b, e) == IF a * Pow2(e) < b THEN ExpDown(a, b, e + 1) ELSE 0 - e

\* floor(log2(a/b))
RatioExponent(a, b) == IF a >= b THEN ExpUp(a, b, 0) ELSE ExpDown(a, b, 1)

Square(x) == x * x

\* 2^n modulo b
RECURSIVE Pow2Mod(_, _)
Pow2Mod(n, b) ==
    IF n = 0 THEN 1 % b
    ELSE IF n % 2 = 0 THEN Square(Pow2Mod(n \div 2, b)) % b
    ELSE (2 * Pow2Mod(n - 1, b)) % b

\* r * 2^n modulo b
DoubleMod(r, b, n) == (r * Pow2Mod(n, b)) % b


\* The residue after rounding half to even: r is the remainder of the last
\* doubling and bit the last bit of the quotient
RoundedResidue(r, bit, b) ==
    IF 2 * r < b THEN r
    ELSE IF 2 * r > b THEN r - b
    ELSE IF bit % 2 = 0 THEN r ELSE r - b

LastDoubling(last, b) == RoundedResidue((2 * last) % b, (2 * last) \div b, b)

\* a*2^n - M*b for fl(a/b) = M/2^n
DivResidue(a, b) == LastDoubling(DoubleMod(a % b, b, 51 - RatioExponent(a, b)), b)

ResidueExceeds(rho, c, b, gap, qIsPowerOfTwo) ==
    rho > 0 /\ (IF qIsPowerOfTwo THEN 4 ELSE 2) * c * rho > b * gap

\* float64(c) * (float64(a) / float64(b)) < q, for q = c*a/b of exponent eq
MulDivBelow(c, a, b, eq, qIsPowerOfTwo) ==
    ResidueExceeds(DivResidue(a, b), c, b, Pow2(eq - RatioExponent(a, b)), qIsPowerOfTwo)

\* The float64 product for the exact quotient k = c*a/b of exponent eq
TruncExact(c, a, b, k, eq) ==
    IF k > 0 /\ MulDivBelow(c, a, b, eq, Pow2(eq) = k) THEN k - 1 ELSE k

\* int(float64(c) * (float64(a) / float64(b)))
TruncMulDiv(c, a, b) ==
    IF (c * a) % b = 0 THEN TruncExact(c, a, b, (c * a) \div b, FloorLog2((c * a) \div b))
    ELSE (c * a) \div b

\* The rounded product when c*a/b + 0.5 is the integer ex
RoundExact(c, a, b, ex) ==
    IF ex >= 2 /\ MulDivBelow(c, a, b, FloorLog2(ex - 1), FALSE) THEN ex - 1 ELSE Max(1, ex)

\* int(math.Max(1.0, math.Floor(float64(c) * (float64(a) / float64(b)) + 0.5)))
RoundMulDiv(c, a, b) ==
    IF (2 * c * a + b) % (2 * b) = 0 THEN RoundExact(c, a, b, (2 * c * a + b) \div (2 * b))
    ELSE Max(1, (2 * c * a + b) \div (2 * b))

\* int(math.Max(1.0, math.Floor(float64(a) * float64(c) / float64(b) + 0.5)))
RoundDiv(a, c, b) == Max(1, (2 * a * c + b) \div (2 * b))


-----------------------------------------------------------------------------
\* Fit-mode resizer (createFitFilter and the custom filters)

\* A filter of the chain: op is the option it was built for, kind the filter
\* type, and width, height, bg, val its arguments (0 / Transparent when the
\* filter has no such argument); radii is the *BorderRadiusValue the four
\* corners of a borderRadiusFilter share, nil for every other filter.
Filter(op, kind, width, height, bg, val) ==
    [op |-> op, kind |-> kind, width |-> width, height |-> height, bg |-> bg, val |-> val,
     radii |-> Nil]

FitFilter(kind, width, height, bg) == Filter("Fit", kind, width, height, bg, 0)

validModes == {s_scaledown, s_contain, s_cover, s_crop, s_pad, s_squeeze}

fitOfMode_CropNeedsOneDimension(mode, width, height, bgColor) ==
    LET both == width > 0 /\ height > 0
        ok(f) == [val |-> Ptr(f), err |-> NoError]
        fail(kind) == [val |-> Nil, err |-> Error(kind, mode)]
    IN  IF mode \notin validModes THEN fail("InvalidFitMode")
        ELSE IF width = 0 /\ height = 0 THEN fail("FitRequiresDimensions")
        ELSE IF mode = s_contain
        THEN IF both THEN ok(FitFilter("ResizeToFit", width, height, Transparent))
             ELSE IF width > 0 THEN ok(FitFilter("Resize", width, 0, Transparent))
             ELSE IF height > 0 THEN ok(FitFilter("Resize", 0, height, Transparent))
             ELSE fail("UnsupportedFitMode")
        ELSE IF mode = s_cover
        THEN IF both THEN ok(FitFilter("ResizeToFill", width, height, Transparent))
             ELSE fail("FitRequiresBoth")
        ELSE IF mode = s_squeeze
        THEN IF both THEN ok(FitFilter("Resize", width, height, Transparent))
             ELSE fail("FitRequiresBoth")
        ELSE IF mode = s_scaledown
        THEN IF both THEN ok(FitFilter("scaleDown", width, height, Transparent))
             ELSE IF width > 0 THEN ok(FitFilter("scaleDown", width, 0, Transparent))
             ELSE IF height > 0 THEN ok(FitFilter("scaleDown", 0, height, Transparent))
             ELSE fail("UnsupportedFitMode")
        ELSE IF mode = s_crop
        THEN ok(FitFilter("crop", width, height, Transparent))
        ELSE IF both THEN ok(FitFilter("pad", width, height, bgColor))
             ELSE fail("FitRequiresBoth")

\* createFitFilter, lines 19-77: mode is the value without the space around it
fitOfMode(mode, width, height, bgColor) ==
    LET both == width > 0 /\ height > 0
        ok(f) == [val |-> Ptr(f), err |-> NoError]
        fail(kind) == [val |-> Nil, err |-> Error(kind, mode)]
    IN  IF mode \notin validModes THEN fail("InvalidFitMode")
        ELSE IF width = 0 /\ height = 0 THEN fail("FitRequiresDimensions")
        ELSE IF mode = s_contain
        THEN IF both THEN ok(FitFilter("ResizeToFit", width, height, Transparent))
             ELSE IF width > 0 THEN ok(FitFilter("Resize", width, 0, Transparent))
             ELSE IF height > 0 THEN ok(FitFilter("Resize", 0, height, Transparent))
             ELSE fail("UnsupportedFitMode")
        ELSE IF mode = s_cover
        THEN IF both THEN ok(FitFilter("ResizeToFill", width, height, Transparent))
             ELSE fail("FitRequiresBoth")
        ELSE IF mode = s_squeeze
        THEN IF both THEN ok(FitFilter("Resize", width, height, Transparent))
             ELSE fail("FitRequiresBoth")
        ELSE IF mode = s_scaledown
        THEN IF both THEN ok(FitFilter("scaleDown", width, height, Transparent))
             ELSE IF width > 0 THEN ok(FitFilter("scaleDown", width, 0, Transparent))
             ELSE IF height > 0 THEN ok(FitFilter("scaleDown", 0, height, Transparent))
             ELSE fail("UnsupportedFitMode")
        ELSE IF mode = s_crop
        THEN IF both THEN ok(FitFilter("crop", width, height, Transparent))
             ELSE fail("FitRequiresBoth")
        ELSE IF both THEN ok(FitFilter("pad", width, height, bgColor))
             ELSE fail("FitRequiresBoth")

\* createFitFilter(value, destination): (gift.Filter, error), with the
\* destination's Width, Height and BgColor as arguments
createFitFilter(value, width, height, bgColor) ==
    fitOfMode(TrimSpace(value), width, height, bgColor)


\* Bounds of gift.Resize(width, height, ...) on a source of size b
ResizeBounds(width, height, b) ==
    IF (width = 0 /\ height = 0) \/ width < 0 \/ height < 0 \/ b[1] <= 0 \/ b[2] <= 0
    THEN <<0, 0>>
    ELSE IF width = 0 THEN <<RoundDiv(height, b[1], b[2]), height>>
    ELSE IF height = 0 THEN <<width, RoundDiv(width, b[2], b[1])>>
    ELSE <<width, height>>

\* Bounds of gift.ResizeToFit(width, height, ...) on a source of size b
ResizeToFitBounds(width, height, b) ==
    IF width <= 0 \/ height <= 0 \/ b[1] <= 0 \/ b[2] <= 0 THEN <<0, 0>>
    ELSE IF width >= b[1] /\ height >= b[2] THEN b
    ELSE IF width * b[2] > height * b[1]
    THEN <<RoundMulDiv(b[1], height, b[2]), height>>
    ELSE <<width, RoundMulDiv(b[2], width, b[1])>>

\* Bounds of gift.ResizeToFill(width, height, ...) on a source of size b
ResizeToFillBounds(width, height, b) ==
    IF width <= 0 \/ height <= 0 \/ b[1] <= 0 \/ b[2] <= 0 THEN <<0, 0>>
    ELSE <<width, height>>

\* b scaled by float64(num) / float64(den) and truncated
ScaledBounds(b, num, den) == <<TruncMulDiv(b[1], num, den), TruncMulDiv(b[2], num, den)>>

scaleDownBounds_ScaleToBox(width, height, b) ==
    IF width = 0 /\ height = 0 THEN b
    ELSE IF width > 0 /\ height > 0
    THEN IF width * b[2] <= height * b[1]
         THEN ScaledBounds(b, width, b[1])
         ELSE ScaledBounds(b, height, b[2])
    ELSE IF width > 0
    THEN <<width, ScaledBounds(b, width, b[1])[2]>>
    ELSE <<ScaledBounds(b, height, b[2])[1], height>>

\* scaleDownFilter.Bounds(srcBounds); math.Min(scaleW, scaleH) is scaleW when
\* width/srcW <= height/srcH
scaleDownBounds(width, height, b) ==
    IF width = 0 /\ height = 0 THEN b
    ELSE IF width > 0 /\ height > 0
    THEN IF b[1] <= width /\ b[2] <= height THEN b
         ELSE IF width * b[2] <= height * b[1]
         THEN ScaledBounds(b, width, b[1])
         ELSE ScaledBounds(b, height, b[2])
    ELSE IF width > 0
    THEN IF b[1] <= width THEN b ELSE <<width, ScaledBounds(b, width, b[1])[2]>>
    ELSE IF b[2] <= height THEN b ELSE <<ScaledBounds(b, height, b[2])[1], height>>


cropBounds_AsScaleDown(width, height, b) == scaleDownBounds(width, height, b)

\* cropFilter.Bounds(srcBounds)
cropBounds(width, height, b) == <<width, height>>

\* padFilter.Bounds(srcBounds)
padBounds(width, height, b) == <<width, height>>

\* Bounds of gift.Rotate(angle, ...) for the multiples of 90 degrees, the only
\* angles the requests of the model rotate by
RotateBounds(angle, b) ==
    CASE angle \in {0, 180 * Unit} -> b
      [] angle \in {90 * Unit, 270 * Unit} -> <<b[2], b[1]>>

\* f.Bounds(srcBounds) of a filter of the chain
FilterBounds(f, b) ==
    CASE f.kind = "Resize" -> ResizeBounds(f.width, f.height, b)
      [] f.kind = "ResizeToFit" -> ResizeToFitBounds(f.width, f.height, b)
      [] f.kind = "ResizeToFill" -> ResizeToFillBounds(f.width, f.height, b)
      [] f.kind = "scaleDown" -> scaleDownBounds(f.width, f.height, b)
      [] f.kind = "crop" -> cropBounds(f.width, f.height, b)
      [] f.kind = "pad" -> padBounds(f.width, f.height, b)
      [] f.kind = "Rotate" -> RotateBounds(f.val, b)
      [] OTHER -> b

-----------------------------------------------------------------------------
\* Rasters.  A pixel either holds content computed from the source raster
\* (img, whose colour the model does not follow) or a fill colour c.

ImagePixel == [img |-> TRUE, c |-> <<>>]

FillPixel(c) == [img |-> FALSE, c |-> c]

Pixels(b) == (0..(b[1] - 1)) \X (0..(b[2] - 1))

Raster(b, px) == [w |-> b[1], h |-> b[2], px |-> px]

Size(r) == <<r.w, r.h>>

\* image.NewRGBA: every pixel transparent black
NewRGBA(b) == Raster(b, [p \in Pixels(b) |-> FillPixel(RGBA(0, 0, 0, 0))])

\* The decoded source image
SourceRaster(b) == Raster(b, [p \in Pixels(b) |-> ImagePixel])

\* A nil color.Color
NilColor == [model |-> "nil", c |-> <<>>]

\* color.White
White == [model |-> "Gray16", c |-> RGBA(255, 255, 255, 255)]

\* dst.Set(x, y, color) for every pixel of dst
FillRaster(dst, color) == [dst EXCEPT !.px = [p \in DOMAIN dst.px |-> FillPixel(color.c)]]

\* copyimage(dst, src): the pixels of src, at the origin of dst
CopyImage(dst, srcR) ==
    [dst EXCEPT !.px = [p \in DOMAIN dst.px |->
                           IF p \in DOMAIN srcR.px THEN srcR.px[p] ELSE dst.px[p]]]

\* Draw of a gift filter whose output has size b: content in the b rectangle
GiftDraw(dst, b) ==
    [dst EXCEPT !.px = [p \in DOMAIN dst.px |->
                           IF p \in Pixels(b) THEN ImagePixel ELSE dst.px[p]]]

\* scaleDownFilter.Draw, lines 128-135: bounds is f.Bounds(src.Bounds())
scaleDownInto(bounds, dst, srcR) ==
    IF bounds = Size(srcR) THEN CopyImage(dst, srcR)
    ELSE GiftDraw(dst, ResizeBounds(bounds[1], bounds[2], Size(srcR)))

\* scaleDownFilter.Draw(dst, src, options)
scaleDownDraw(width, height, dst, srcR) ==
    scaleDownInto(scaleDownBounds(width, height, Size(srcR)), dst, srcR)

\* cropFilter.Draw(dst, src, options)
cropDraw(width, height, dst, srcR) ==
    IF srcR.w <= width /\ srcR.h <= height
    THEN scaleDownDraw(width, height, dst, srcR)
    ELSE GiftDraw(dst, ResizeToFillBounds(width, height, Size(srcR)))

\* padFilter.Draw, lines 196-200: temp set into dst at the offset
CentreImage(filled, temp, offsetX, offsetY) ==
    [filled EXCEPT !.px = [p \in DOMAIN filled.px |->
        IF <<p[1] - offsetX, p[2] - offsetY>> \in DOMAIN temp.px
        THEN temp.px[<<p[1] - offsetX, p[2] - offsetY>>]
        ELSE filled.px[p]]]

\* padFilter.Draw, lines 172-194: tempBounds is fitFilter.Bounds(src.Bounds())
padInto(width, height, bgColor, dst, tempBounds) ==
    CentreImage(FillRaster(dst, IF bgColor = NilColor THEN White ELSE bgColor),
                GiftDraw(NewRGBA(tempBounds), tempBounds),
                (width - tempBounds[1]) \div 2, (height - tempBounds[2]) \div 2)

\* padFilter.Draw(dst, src, options)
padDraw(width, height, bgColor, dst, srcR) ==
    padInto(width, height, bgColor, dst, ResizeToFitBounds(width, height, Size(srcR)))


\* f.Draw(dst, src, options) of a filter of the chain
FilterDraw(f, dst, srcR) ==
    CASE f.kind = "scaleDown" -> scaleDownDraw(f.width, f.height, dst, srcR)
      [] f.kind = "crop" -> cropDraw(f.width, f.height, dst, srcR)
      [] f.kind = "pad" -> padDraw(f.width, f.height, f.bg, dst, srcR)
      [] OTHER -> GiftDraw(dst, FilterBounds(f, Size(srcR)))

-----------------------------------------------------------------------------
\* Border-radius filter construction (filter_border_radius.go)

\* CreateBorderRadiusFilter, lines 22-32: radii is the result of the parser
radiusFilter(value, radii) ==
    IF radii.err # "none" THEN [val |-> Nil, err |-> Error("InvalidRadius", value)]
    ELSE [val |-> Ptr([Filter("BorderRadius", "borderRadius", 0, 0, Transparent, 0)
                         EXCEPT !.radii = radii.val]),
          err |-> NoError]

\* CreateBorderRadiusFilter(value): (gift.Filter, error)
CreateBorderRadiusFilter(value) ==
    IF value = <<>> THEN [val |-> Nil, err |-> Error("InvalidRadius", <<>>)]
    ELSE radiusFilter(value, parseBorderRadiusValue(value))


-----------------------------------------------------------------------------
\* Filter chain builder (pkg/kritiimages/base_transform.go, getFilters)

ImplicitFitMode_Contain == s_contain

\* The mode of the fit filter getFilters adds when the request has none
ImplicitFitMode == s_crop

Gift(op, kind, val) == Filter(op, kind, 0, 0, Transparent, val)

BuildFailed(e) == [val |-> Nil, err |-> e]

\* The filter of a rotate entry, from the result of parseRotateAngle
RotateFilters(t, values, a) ==
    IF a.err # "none" THEN [val |-> <<>>, err |-> Error("InvalidRotate", values)]
    ELSE [val |-> <<Gift(t, "Rotate", a.val)>>, err |-> NoError]

\* The filters one entry of the options map appends: [val, err]
OptionFilters(t, values, destination) ==
    CASE t = "Flip" ->
            [val |-> IF values = <<"h">> THEN <<Gift(t, "FlipHorizontal", 0)>>
                     ELSE IF values = <<"v">> THEN <<Gift(t, "FlipVertical", 0)>>
                     ELSE IF values \in {s_hv, s_vh}
                     THEN <<Gift(t, "FlipHorizontal", 0), Gift(t, "FlipVertical", 0)>>
                     ELSE <<>>,
             err |-> NoError]
      [] t = "Blur" ->
            [val |-> <<Gift(t, "GaussianBlur", parseFloatValue(values, Unit, 250 * Unit, Unit))>>,
             err |-> NoError]
      [] t = "Brightness" ->
            [val |-> <<Gift(t, "Brightness", parseFloatValue(values, -100 * Unit, 100 * Unit, 0))>>,
             err |-> NoError]
      [] t = "Contrast" ->
            [val |-> <<Gift(t, "Contrast", parseFloatValue(values, -100 * Unit, 100 * Unit, 0))>>,
             err |-> NoError]
      [] t = "Fit" ->
            createFitFilter(values, destination.Width, destination.Height, destination.BgColor)
      [] t = "Gamma" ->
            [val |-> <<Gift(t, "Gamma", parseFloatValue(values, 0, 2 * Unit, 0))>>,
             err |-> NoError]
      [] t = "Rotate" -> RotateFilters(t, values, parseRotateAngle(values))
      [] t = "Saturation" ->
            [val |-> <<Gift(t, "Saturation", parseFloatValue(values, -100 * Unit, 500 * Unit, 0))>>,
             err |-> NoError]
      [] t = "Sharpen" ->
            [val |-> <<Gift(t, "UnsharpMask",
                            parseFloatValue(values, Unit \div 2, (3 * Unit) \div 2, Unit \div 2))>>,
             err |-> NoError]
      [] t = "BorderRadius" -> CreateBorderRadiusFilter(values)
      [] OTHER -> [val |-> <<>>, err |-> NoError]

\* The range loop of getFilters over the options map, which Go walks in an
\* order it does not define: order is the order of one walk, fs the filters
\* of its i-th entry
RECURSIVE rangeOptions(_, _, _, _, _)
rangeAppend(options, destination, order, i, acc, fs) ==
    IF fs.err # NoError THEN BuildFailed(fs.err)
    ELSE rangeOptions(options, destination, order, i + 1, acc \o fs.val)

rangeOptions(options, destination, order, i, acc) ==
    IF i > Len(order) THEN [val |-> Ptr(acc), err |-> NoError]
    ELSE rangeAppend(options, destination, order, i, acc,
                     OptionFilters(order[i], options[order[i]], destination))

\* The implicit fit of getFilters leads the list
getFiltersAfter(options, destination, order, fit) ==
    IF fit.err # NoError THEN BuildFailed(fit.err)
    ELSE rangeOptions(options, destination, order, 1, fit.val)

\* getFilters(options, destination): ([]gift.Filter, error)
getFilters(options, destination, order) ==
    IF (destination.Width > 0 \/ destination.Height > 0) /\ "Fit" \notin DOMAIN options
    THEN getFiltersAfter(options, destination, order,
                         createFitFilter(ImplicitFitMode, destination.Width,
                                         destination.Height, destination.BgColor))
    ELSE rangeOptions(options, destination, order, 1, <<>>)

\* The orders in which a range loop can walk the keys of a map
WalkOrders(m) ==
    {o \in [1..Cardinality(DOMAIN m) -> DOMAIN m] :
        \A i, j \in DOMAIN o : i # j => o[i] # o[j]}

-----------------------------------------------------------------------------
\* Transformation engine (pkg/kritiimages/base_transform.go, Transform)

\* g.Bounds(srcBounds): each filter maps the bounds of the one before it
RECURSIVE BoundsFrom(_, _, _)
BoundsFrom(fs, i, b) ==
    IF i > Len(fs) THEN b ELSE BoundsFrom(fs, i + 1, FilterBounds(fs[i], b))

GiftBounds(fs, b) == BoundsFrom(fs, 1, b)

\* g.Draw(dst, src): every filter but the last draws into a new image of its
\* bounds, the last into dst; acc holds the source and the rasters drawn so far
RECURSIVE DrawFrom(_, _, _, _)
DrawFrom(fs, i, dst, acc) ==
    IF i > Len(fs) THEN Tail(acc)
    ELSE DrawFrom(fs, i + 1, dst,
                  Append(acc, FilterDraw(fs[i],
                                         IF i = Len(fs) THEN dst
                                         ELSE NewRGBA(FilterBounds(fs[i], Size(acc[Len(acc)]))),
                                         acc[Len(acc)])))

GiftDrawAll(fs, dst, srcR) ==
    IF Len(fs) = 0 THEN <<CopyImage(dst, srcR)>> ELSE DrawFrom(fs, 1, dst, <<srcR>>)

TransformFailed(kind, detail, d) ==
    [err |-> Error(kind, detail), dest |-> d, filters |-> Nil, stages |-> <<>>,
     encoded |-> Nil]

\* formatTo(image, format, quality) accepts the formats it can encode
CanEncode(format) == ToLower(format) \in {s_jpg, s_jpeg, s_png, s_webp}

\* Transform, lines 57-69: formatTo on the image the filters drew
TransformEncode(d1, fs, drawn) ==
    IF ~CanEncode(d1.Format)
    THEN [err |-> Error("ErrInvalidImageFormat", d1.Format), dest |-> Ptr(d1),
          filters |-> fs, stages |-> drawn, encoded |-> Nil]
    ELSE [err |-> NoError, dest |-> Ptr(d1), filters |-> fs, stages |-> drawn,
          encoded |-> Ptr([format |-> ToLower(d1.Format), quality |-> d1.Quality,
                           raster |-> drawn[Len(drawn)]])]

\* Transform, lines 50-55: the destination image, filled with the background
\* unless the background is color.Transparent
TransformCanvas(d1, blank) ==
    IF d1.BgColor # Transparent THEN FillRaster(blank, d1.BgColor) ELSE blank

\* Transform, lines 44-57: fs is the result of getFilters
TransformDraw(img, d1, fs) ==
    IF fs.err # NoError
    THEN TransformFailed("ErrTransformationsNotFound", <<fs.err.kind>> \o fs.err.detail,
                         Ptr(d1))
    ELSE TransformEncode(d1, fs.val,
             GiftDrawAll(fs.val[1],
                         TransformCanvas(d1, NewRGBA(GiftBounds(fs.val[1], <<img.w, img.h>>))),
                         SourceRaster(<<img.w, img.h>>)))

\* Transform, lines 30-42: the descriptor takes from the image what it leaves open
TransformDefaults(d, img) ==
    [d EXCEPT !.Width = IF d.Width <= 0 THEN img.w ELSE d.Width,
              !.Height = IF d.Height <= 0 THEN img.h ELSE d.Height,
              !.Format = IF d.Format = <<>> THEN img.format ELSE d.Format,
              !.Quality = IF d.Quality <= 0 THEN 100 ELSE d.Quality]

TransformImage(img, d1, options, order) ==
    TransformDraw(img, d1, getFilters(options, d1, order))

\* Transform(ctx, path, dest, options) on the stored image source (nil when the
\* fetch fails), with the map walked in order.  dest is a pointer: the
\* descriptor the caller reads afterwards is the one Transform filled in.
Transform(source, d, options, order) ==
    IF source = Nil THEN TransformFailed("ErrSourceImageNotFound", <<>>, Ptr(d))
    ELSE TransformImage(source[1], TransformDefaults(d, source[1]), options, order)

-----------------------------------------------------------------------------
\* Template variables (internal/template and internal/templatesources)

\* \w of the regular expression, and the characters of a template identifier
IsWordChar(c) ==
    \/ IsDigit(c) \/ c = "_"
    \/ \E i \in 1..26 : UpperChars[i] = c \/ LowerChars[i] = c

SetMin(S) == CHOOSE x \in S : \A y \in S : x <= y

\* The end of the run of word characters that starts at position i
WordRunEnd(s, i) ==
    SetMin({Len(s) + 1} \cup {j \in i..Len(s) : ~IsWordChar(s[j])})

\* The first position from i on where sub begins, Len(s) + 1 without one
IndexFrom(s, sub, i) ==
    SetMin({Len(s) + 1}
           \cup {j \in i..(Len(s) - Len(sub) + 1) : SubSeq(s, j, j + Len(sub) - 1) = sub})

s_open == <<"{", "{">>

s_close == <<"}", "}">>

\* \{\{(\w+)\}\} matches at position p
TokenAt(s, p) ==
    /\ p + 1 <= Len(s) /\ SubSeq(s, p, p + 1) = s_open
    /\ WordRunEnd(s, p + 2) > p + 2
    /\ WordRunEnd(s, p + 2) + 1 <= Len(s)
    /\ SubSeq(s, WordRunEnd(s, p + 2), WordRunEnd(s, p + 2) + 1) = s_close

\* The first match from position i on, Len(s) + 1 without one
NextToken(s, i) == SetMin({Len(s) + 1} \cup {p \in i..Len(s) : TokenAt(s, p)})

\* The function ReplaceAllStringFunc calls on a match: strings.Trim(match, "{} ")
\* is the key
replaceMatch(key, match, variables) ==
    IF key \in DOMAIN variables THEN variables[key] ELSE match

\* regexp.ReplaceAllStringFunc from position i on: p is the next match
RECURSIVE replaceAllFrom(_, _, _)
replaceNext(s, i, p, e, variables) ==
    IF p > Len(s) THEN SubSeq(s, i, Len(s))
    ELSE SubSeq(s, i, p - 1)
         \o replaceMatch(SubSeq(s, p + 2, e - 1), SubSeq(s, p, e + 1), variables)
         \o replaceAllFrom(s, e + 2, variables)

replaceAllFrom(s, i, variables) ==
    replaceNext(s, i, NextToken(s, i), WordRunEnd(s, NextToken(s, i) + 2), variables)

\* substituteVariables(template, variables)
substituteVariables(template, variables) == replaceAllFrom(template, 1, variables)

\* What text/template prints for a field of the map that has no entry
s_novalue == <<"<", "n", "o", " ", "v", "a", "l", "u", "e", ">">>

\* An action of text/template, from the text between its delimiters: a field
\* of the data (.key) prints the entry of the map.  Of the other actions the
\* texts of the model hold identifiers that name no function, empty actions
\* and actions with a character that begins no token, which do not parse.
executeAction(content, tvars) ==
    IF Len(content) >= 2 /\ content[1] = "." /\ WordRunEnd(content, 2) = Len(content) + 1
    THEN [ok |-> TRUE,
          out |-> IF Tail(content) \in DOMAIN tvars THEN tvars[Tail(content)] ELSE s_novalue]
    ELSE [ok |-> FALSE, out |-> <<>>]

\* template.Parse and Execute from position i on: p is the next {{ and q the
\* }} that closes it
RECURSIVE executeFrom(_, _, _)
executeRest(head, rest) ==
    IF ~rest.ok THEN rest ELSE [ok |-> TRUE, out |-> head \o rest.out]

executeNext(s, i, p, q, tvars, a) ==
    IF p > Len(s) THEN [ok |-> TRUE, out |-> SubSeq(s, i, Len(s))]
    ELSE IF q > Len(s) \/ ~a.ok THEN [ok |-> FALSE, out |-> <<>>]
    ELSE executeRest(SubSeq(s, i, p - 1) \o a.out, executeFrom(s, q + 2, tvars))

executeAt(s, i, p, q, tvars) ==
    executeNext(s, i, p, q, tvars,
                IF q > Len(s) THEN [ok |-> FALSE, out |-> <<>>]
                ELSE executeAction(TrimSpace(SubSeq(s, p + 2, q - 1)), tvars))

executeFrom(s, i, tvars) ==
    executeAt(s, i, IndexFrom(s, s_open, i),
              IndexFrom(s, s_close, IndexFrom(s, s_open, i) + 2), tvars)

\* The nodes of a template
Attrs(width, height, text, fill, path) ==
    [Width |-> width, Height |-> height, Text |-> text, Fill |-> fill, Path |-> path]

Node(className, attrs, children) ==
    [ClassName |-> className, Attrs |-> attrs, Children |-> children]

\* A template of one Text node is this text, the text of the node, and "}}
TextTemplateOpen ==

    <<"{", "\"", "c", "l", "a", "s", "s", "N", "a", "m", "e", "\"", ":", "\"", "T", "e", "x", "t", "\"", ",", "\"", "a", "t", "t", "r", "s", "\"", ":", "{", "\"", "t", "e", "x", "t", "\"", ":", "\"">>

TextTemplateClose == <<"\"", "}", "}">>

TextTemplate(body) == TextTemplateOpen \o body \o TextTemplateClose

\* json.Unmarshal(data, &root) for the templates of one Text node: the text
\* of the node is a JSON string, which holds no quote and no backslash
unmarshalToRootNode(data) ==
    IF /\ HasPrefix(data, TextTemplateOpen)
       /\ HasSuffix(SubSeq(data, Len(TextTemplateOpen) + 1, Len(data)), TextTemplateClose)
       /\ \A i \in (Len(TextTemplateOpen) + 1)..(Len(data) - Len(TextTemplateClose)) :
              data[i] \notin {"\"", "\\"}
    THEN [val |-> Ptr(Node("Text",
                           Attrs(0, 0, SubSeq(data, Len(TextTemplateOpen) + 1,
                                              Len(data) - Len(TextTemplateClose)),
                                 <<>>, <<>>),
                           <<>>)),
          err |-> "none"]
    ELSE [val |-> Nil, err |-> "deserialize"]

\* substituteVarsAndUnmarshalToRootNode(data, tvars); executed is the result
\* of template.Parse and Execute
unmarshalExecuted(executed) ==
    IF ~executed.ok THEN [val |-> Nil, err |-> "invalid JSON in template file"]
    ELSE unmarshalToRootNode(executed.out)

substituteVarsAndUnmarshalToRootNode(data, tvars) ==
    unmarshalExecuted(executeFrom(data, 1, tvars))

\* The start of RenderTemplate(templateJSON, variables) of internal/template:
\* substitution, then json.Unmarshal
substituteAndParse(templateJSON, variables) ==
    unmarshalToRootNode(substituteVariables(templateJSON, variables))

-----------------------------------------------------------------------------
\* Template rendering (pkg/kritiimages/base_template.go)
\*
\* env is what the render call finds around it: env.found says whether the
\* template source returns the template, env.missing is the set of image
\* paths whose fetch fails, env.font says whether the font file loads.
\* st is the drawing context and the record of the walk: st.err the error
\* so far, st.visited the positions of the nodes handed to renderImageNode or
\* renderTextNode, st.drawn the positions drawn on the canvas. A position is
\* the sequence of child indexes that leads from the root to the node.

MaxCanvas == 2048

s_ErrTemplateRenderFailed == "failed to render template"

s_InvalidCanvasSize == "invalid canvas size"

s_ErrSourceImageNotFound == "source image not found"

s_FontLoadFailed == "failed to load font"

s_NoErr == "none"

renderImageNode_FetchErrorDropped(env, attrs, path, st) ==
    IF attrs.Path = <<>> \/ attrs.Path \in env.missing
    THEN [st EXCEPT !.visited = Append(@, path)]
    ELSE [st EXCEPT !.visited = Append(@, path), !.drawn = Append(@, path)]

\* renderImageNode(ctx, dc, &node.Attrs)
renderImageNode(env, attrs, path, st) ==
    IF attrs.Path = <<>> THEN [st EXCEPT !.visited = Append(@, path)]
    ELSE IF attrs.Path \in env.missing
    THEN [st EXCEPT !.visited = Append(@, path), !.err = s_ErrSourceImageNotFound]
    ELSE [st EXCEPT !.visited = Append(@, path), !.drawn = Append(@, path)]

\* renderTextNode(dc, &node.Attrs)
renderTextNode(env, attrs, path, st) ==
    IF ~env.font
    THEN [st EXCEPT !.visited = Append(@, path), !.err = s_FontLoadFailed]
    ELSE [st EXCEPT !.visited = Append(@, path), !.drawn = Append(@, path)]

RECURSIVE renderNode(_, _, _, _)
RECURSIVE renderChildren(_, _, _, _, _)

\* if err := k.renderNode(ctx, dc, &child); err != nil { return err }
renderChildrenNext(env, children, i, path, r) ==
    IF r.err # s_NoErr THEN r ELSE renderChildren(env, children, i + 1, path, r)

\* for _, child := range node.Children
renderChildren(env, children, i, path, st) ==
    IF i > Len(children) THEN st
    ELSE renderChildrenNext(env, children, i, path,
                            renderNode(env, children[i], path \o <<i>>, st))

renderNode(env, node, path, st) ==
    IF node.ClassName = "Image" THEN renderImageNode(env, node.Attrs, path, st)
    ELSE IF node.ClassName = "Text" THEN renderTextNode(env, node.Attrs, path, st)
    ELSE renderChildren(env, node.Children, 1, path, st)

\* The canvas dc := gg.NewContext(width, height), filled with the root's fill
NewContext(width, height, fill) ==
    [err |-> s_NoErr, w |-> width, h |-> height,
     fill |-> IF fill = <<>> THEN <<"#", "0", "0", "0", "0", "0", "0", "0", "0">> ELSE fill,
     visited |-> <<>>, drawn |-> <<>>]

\* What RenderTemplate returns: the buffer (nil or the encoded canvas), the
\* error, and what was visited and drawn before it returned
RenderResult(buf, e, visited, drawn) ==
    [buf |-> buf, err |-> e, visited |-> visited, drawn |-> drawn]

\* The end of RenderTemplate: the walk's error, or png.Encode of the canvas
encodeRendered(st) ==
    IF st.err # s_NoErr THEN RenderResult(Nil, st.err, st.visited, st.drawn)
    ELSE RenderResult(Ptr([w |-> st.w, h |-> st.h, fill |-> st.fill, drawn |-> st.drawn]),
                      s_NoErr, st.visited, st.drawn)

\* width, height := root.Attrs.Width, root.Attrs.Width and the check on them
renderCanvas(env, root, width, height) ==
    IF width <= 0 \/ height <= 0 \/ width > MaxCanvas \/ height > MaxCanvas
    THEN RenderResult(Nil, s_InvalidCanvasSize, <<>>, <<>>)
    ELSE encodeRendered(renderNode(env, root, <<>>, NewContext(width, height, root.Attrs.Fill)))

RenderTemplate(env, root) ==
    IF ~env.found THEN RenderResult(Nil, s_ErrTemplateRenderFailed, <<>>, <<>>)
    ELSE renderCanvas(env, root, root.Attrs.Width, root.Attrs.Width)

-----------------------------------------------------------------------------
\* Image and template sources (internal/imagesources, internal/templatesources)
\* and the configuration that sets their limits (internal/config)
\*
\* A path is a sequence of characters. A source's result carries, next to the
\* value and the error, the sequence of file-system and object-store calls it
\* made: touched[k] = [op, loc] is the k-th call and the path or key it was
\* given.

s_dot == <<".">>

s_dotdot == <<".", ".">>

s_slash == <<"/">>

SetMax(S) == CHOOSE x \in S : \A y \in S : x >= y

RECURSIVE cleanSegments(_, _, _, _)
\* filepath.Clean on the elements of the path: out is the elements kept so far
cleanSegments(segs, i, out, rooted) ==
    IF i > Len(segs) THEN out
    ELSE IF segs[i] = <<>> \/ segs[i] = s_dot THEN cleanSegments(segs, i + 1, out, rooted)
    ELSE IF segs[i] = s_dotdot
    THEN IF Len(out) > 0 /\ out[Len(out)] # s_dotdot
         THEN cleanSegments(segs, i + 1, SubSeq(out, 1, Len(out) - 1), rooted)
         ELSE IF rooted THEN cleanSegments(segs, i + 1, out, rooted)
         ELSE cleanSegments(segs, i + 1, Append(out, s_dotdot), rooted)
    ELSE cleanSegments(segs, i + 1, Append(out, segs[i]), rooted)

RECURSIVE joinSegments(_)
joinSegments(out) ==
    IF Len(out) = 0 THEN <<>>
    ELSE IF Len(out) = 1 THEN out[1]
    ELSE out[1] \o s_slash \o joinSegments(Tail(out))

cleanResult(out, rooted) ==
    IF rooted THEN s_slash \o joinSegments(out)
    ELSE IF out = <<>> THEN s_dot
    ELSE joinSegments(out)

\* filepath.Clean(path)
Clean(path) ==
    IF path = <<>> THEN s_dot
    ELSE cleanResult(cleanSegments(Split(path, "/"), 1, <<>>, path[1] = "/"), path[1] = "/")

\* filepath.IsAbs(path)
IsAbs(path) == HasPrefix(path, s_slash)

ContainsDotDot_Never(s) == FALSE

\* strings.Contains(s, "..")
ContainsDotDot(s) == \E i \in 1..(Len(s) - 1) : s[i] = "." /\ s[i + 1] = "."

\* filepath.Join(base, path) for a base that is not empty
filepathJoin(base, path) == IF path = <<>> THEN Clean(base) ELSE Clean(base \o s_slash \o path)

\* filepath.Dir(path)
Dir(path) == Clean(SubSeq(path, 1, SetMax({0} \cup {i \in 1..Len(path) : path[i] = "/"})))

\* filepath.Ext(path)
Ext(path) ==
    IF \E i \in 1..Len(path) : path[i] = "." /\ \A j \in i..Len(path) : path[j] # "/"
    THEN SubSeq(path, SetMax({i \in 1..Len(path) : path[i] = "."}), Len(path))
    ELSE <<>>

\* The extensions UploadImage encodes
EncodedExts ==
    {<<".", "j", "p", "g">>, <<".", "j", "p", "e", "g">>, <<".", "p", "n", "g">>,
     <<".", "w", "e", "b", "p">>}

\* images.local.base_path and templates.local.base_path of the model
BasePath == <<"/", "b">>

DefaultMaxDimension == 8192

DefaultMaxFileSize == 52428800

\* setDefaults(): the image limits viper is given as defaults
setDefaults ==
    MapPut(MapPut(EmptyMap, "images.max_dimension", DefaultMaxDimension),
           "images.max_file_size_in_bytes", DefaultMaxFileSize)

\* viper's settings once the configuration file is read over the defaults
ReadInConfig(defaults, file) ==
    [k \in DOMAIN defaults \cup DOMAIN file |-> IF k \in DOMAIN file THEN file[k] ELSE defaults[k]]

\* viper.Unmarshal of one integer field: the setting under the field's key,
\* or the zero value
UnmarshalInt(settings, key) == IF key \in DOMAIN settings THEN settings[key] ELSE 0

\* LoadConfig(path), the fields of ImagesConfig that limit source images
LoadConfig(file) ==
    [MaxImageDimension |->
         UnmarshalInt(ReadInConfig(setDefaults, file), "images.max_image_dimension"),
     MaxImageSizeInBytes |->
         UnmarshalInt(ReadInConfig(setDefaults, file), "images.max_file_size_in_bytes")]

\* getImageSource: SourceImageValidations from the configuration
SourceImageValidations(cfg) ==
    [MaxImageDimension |-> cfg.MaxImageDimension,
     MaxFileSizeInBytes |-> cfg.MaxImageSizeInBytes]

\* validateImageDimensions(width, height, max): TRUE is the error
validateImageDimensions(width, height, max) == width > max \/ height > max

\* validateImageSize(fileSize, max): TRUE is the error
validateImageSize(fileSize, max) == fileSize > max

Touch(op, loc) == [op |-> op, loc |-> loc]

SourceResult(val, e, touched) == [val |-> val, err |-> e, touched |-> touched]

\* The end of GetImage, once the bytes are at hand: size check, image.Decode,
\* dimension check
decodeValidated(file, v, touched) ==
    IF validateImageSize(file.size, v.MaxFileSizeInBytes)
    THEN SourceResult(Nil, "image file too large", touched)
    ELSE IF ~file.ok THEN SourceResult(Nil, "failed to decode image", touched)
    ELSE IF validateImageDimensions(file.w, file.h, v.MaxImageDimension)
    THEN SourceResult(Nil, "image dimensions too large", touched)
    ELSE SourceResult(Ptr([w |-> file.w, h |-> file.h]), s_NoErr, touched)

\* ImageSourceLocal.GetImage after the path check; file is what the disk
\* holds at fullPath (nil when there is nothing)
getLocalImageAt(fullPath, file, v) ==
    IF file = Nil
    THEN SourceResult(Nil, "failed to stat image", <<Touch("os.Stat", fullPath)>>)
    ELSE decodeValidated(file[1], v, <<Touch("os.Stat", fullPath), Touch("os.Open", fullPath)>>)

\* ImageSourceLocal.GetImage(ctx, fileName)
GetImageLocal(fileName, file, v) ==
    IF IsAbs(Clean(fileName)) \/ ContainsDotDot(Clean(fileName))
    THEN SourceResult(Nil, "invalid image path", <<>>)
    ELSE getLocalImageAt(filepathJoin(BasePath, Clean(fileName)), file, v)

\* ImageSourceLocal.UploadImage after the checks of the path and the dimensions
createLocalImageAt(fullPath, fileName, img, v) ==
    IF ToLower(Ext(fileName)) \notin EncodedExts
    THEN SourceResult(Nil, "unsupported image format",
                      <<Touch("os.MkdirAll", Dir(fullPath)), Touch("os.Create", fullPath)>>)
    ELSE IF validateImageSize(img.size, v.MaxFileSizeInBytes)
    THEN SourceResult(Nil, "image file too large",
                      <<Touch("os.MkdirAll", Dir(fullPath)), Touch("os.Create", fullPath),
                        Touch("os.Remove", fullPath)>>)
    ELSE SourceResult(Nil, s_NoErr,
                      <<Touch("os.MkdirAll", Dir(fullPath)), Touch("os.Create", fullPath)>>)

\* ImageSourceLocal.UploadImage(ctx, fileName, file)
UploadImageLocal(fileName, img, v) ==
    IF IsAbs(Clean(fileName)) \/ ContainsDotDot(Clean(fileName))
    THEN SourceResult(Nil, "invalid image path", <<>>)
    ELSE IF validateImageDimensions(img.w, img.h, v.MaxImageDimension)
    THEN SourceResult(Nil, "image dimensions too large", <<>>)
    ELSE createLocalImageAt(filepathJoin(BasePath, Clean(fileName)), fileName, img, v)

\* ImageSourceS3.GetImage(ctx, fileName)
GetImageS3(fileName, file, v) ==
    IF ContainsDotDot(Clean(fileName)) THEN SourceResult(Nil, "invalid image path", <<>>)
    ELSE IF file = Nil
    THEN SourceResult(Nil, "failed to get image from S3", <<Touch("GetObject", Clean(fileName))>>)
    ELSE decodeValidated(file[1], v, <<Touch("GetObject", Clean(fileName))>>)

\* ImageSourceS3.UploadImage(ctx, fileName, file)
UploadImageS3(fileName, img, v) ==
    IF ContainsDotDot(Clean(fileName)) THEN SourceResult(Nil, "invalid image path", <<>>)
    ELSE IF validateImageDimensions(img.w, img.h, v.MaxImageDimension)
    THEN SourceResult(Nil, "image dimensions too large", <<>>)
    ELSE IF ToLower(Ext(fileName)) \notin EncodedExts
    THEN SourceResult(Nil, "unsupported image format", <<>>)
    ELSE IF validateImageSize(img.size, v.MaxFileSizeInBytes)
    THEN SourceResult(Nil, "image file too large", <<>>)
    ELSE SourceResult(Nil, s_NoErr, <<Touch("PutObject", Clean(fileName))>>)

\* The end of GetTemplateSubstituted: the node or the error of
\* substituteVarsAndUnmarshalToRootNode
templateResult(r, touched) ==
    SourceResult(r.val, IF r.err = "none" THEN s_NoErr ELSE r.err, touched)

\* TemplateSourceLocal.GetTemplateSubstituted after the path check
getLocalTemplateAt(fullPath, data, tvars) ==
    IF data = Nil
    THEN SourceResult(Nil, "failed to stat template", <<Touch("os.Stat", fullPath)>>)
    ELSE templateResult(substituteVarsAndUnmarshalToRootNode(data[1], tvars),
                        <<Touch("os.Stat", fullPath), Touch("os.Open", fullPath)>>)

\* TemplateSourceLocal.GetTemplateSubstituted(ctx, fileName, vars)
GetTemplateLocal(fileName, data, tvars) ==
    IF IsAbs(Clean(fileName)) \/ ContainsDotDot(Clean(fileName))
    THEN SourceResult(Nil, "invalid template path", <<>>)
    ELSE getLocalTemplateAt(filepathJoin(BasePath, Clean(fileName)), data, tvars)

\* TemplateSourceS3.GetTemplateSubstituted(ctx, fileName, vars)
GetTemplateS3(fileName, data, tvars) ==
    IF ContainsDotDot(Clean(fileName)) THEN SourceResult(Nil, "invalid template path", <<>>)
    ELSE IF data = Nil
    THEN SourceResult(Nil, "failed to get template from S3",
                      <<Touch("GetObject", Clean(fileName))>>)
    ELSE templateResult(substituteVarsAndUnmarshalToRootNode(data[1], tvars),
                        <<Touch("GetObject", Clean(fileName))>>)

-----------------------------------------------------------------------------
\* Objects reached by pointer live in a heap, a sequence from address to object

NewAddress_Static(h) == 1

\* The address of a new object: one no object has yet
NewAddress(h) == Len(h) + 1

\* The heap with obj at address a
Store(h, a, obj) ==
    [x \in 1..Max(Len(h), a) |-> IF x = a THEN obj ELSE h[x]]

-----------------------------------------------------------------------------
\* Border-radius drawing (filter_border_radius.go).  A radius is a float32,
\* kept in units of 10^-FracDigits like every parsed number; the distances of
\* the mask are kept in units of 1/MaskUnit of a pixel, which holds every
\* radius of the model's inputs exactly.

MaskUnit == 20

\* The composite literal of CreateBorderRadiusFilter, lines 27-32: the four
\* corners hold the one address of the parsed value
borderRadiusFilter(radii) == [tl |-> radii, tr |-> radii, bl |-> radii, br |-> radii]

\* Draw, lines 54-58 (and 59-73 for the other corners): the value at address a
\* converted when it is a percentage, then clamped, both assigned to the value
\* itself; minDim is in pixels, maxRadius in units of 10^-FracDigits
resolveCorner_NoClamp(h, a, minDim, maxRadius) ==
    IF h[a].IsPercent
    THEN Store(h, a, [Value |-> Float32(Float32(h[a].Value \div 100) * minDim),
                      IsPercent |-> FALSE])
    ELSE h

resolveCorner(h, a, minDim, maxRadius) ==
    LET converted ==
            IF h[a].IsPercent
            THEN Store(h, a, [Value |-> Float32(Float32(h[a].Value \div 100) * minDim),
                              IsPercent |-> FALSE])
            ELSE h
    IN  Store(converted, a, [converted[a] EXCEPT !.Value = Min(converted[a].Value, maxRadius)])

\* Draw, lines 52-73: the four corners in the order tl, tr, bl, br
resolveRadii(h, f, width, height) ==
    LET minDim == Min(width, height)
        maxRadius == (minDim * Unit) \div 2
        h1 == resolveCorner(h, f.tl, minDim, maxRadius)
        h2 == resolveCorner(h1, f.tr, minDim, maxRadius)
        h3 == resolveCorner(h2, f.bl, minDim, maxRadius)
    IN  resolveCorner(h3, f.br, minDim, maxRadius)

\* A float32 length as a number of mask units
MaskLength(v) == (v * MaskUnit) \div Unit

\* uint8(alpha * 255) for alpha = 1.0 - (distance - (radius - 1.0)), lines
\* 171-172: the largest k with k <= 255 * (radius - distance), where radius is
\* r mask units and distance the square root of s
edgeAlpha(r, s) ==
    SetMax({k \in 0..255 : 255 * r - k * MaskUnit >= 0
                            /\ 255 * 255 * s <= (255 * r - k * MaskUnit) ^ 2})

\* calculatePixelAlpha, lines 163-179: dx, dy and radius in mask units
alphaAtDistance(dx, dy, radius) ==
    IF dx * dx + dy * dy <= radius * radius
    THEN IF radius - MaskUnit <= 0
            \/ dx * dx + dy * dy >= (radius - MaskUnit) * (radius - MaskUnit)
         THEN edgeAlpha(radius, dx * dx + dy * dy)
         ELSE 255
    ELSE 0

\* calculatePixelAlpha(x, y, width, height), lines 127-161, for the radii r of
\* the four corners in mask units
cornerAlpha(r, x, y, width, height) ==
    LET fx == x * MaskUnit
        fy == y * MaskUnit
        fw == width * MaskUnit
        fh == height * MaskUnit
    IN  IF fx < r.tl /\ fy < r.tl
        THEN alphaAtDistance(fx - r.tl, fy - r.tl, r.tl)
        ELSE IF fx >= fw - r.tr /\ fy < r.tr
        THEN alphaAtDistance(fx - (fw - r.tr), fy - r.tr, r.tr)
        ELSE IF fx >= fw - r.br /\ fy >= fh - r.br
        THEN alphaAtDistance(fx - (fw - r.br), fy - (fh - r.br), r.br)
        ELSE IF fx < r.bl /\ fy >= fh - r.bl
        THEN alphaAtDistance(fx - r.bl, fy - (fh - r.bl), r.bl)
        ELSE 255

calculatePixelAlpha(h, f, x, y, width, height) ==
    cornerAlpha([tl |-> MaskLength(h[f.tl].Value), tr |-> MaskLength(h[f.tr].Value),
                 bl |-> MaskLength(h[f.bl].Value), br |-> MaskLength(h[f.br].Value)],
                x, y, width, height)

\* drawRoundedRectMask(mask, bounds)
drawRoundedRectMask(h, f, width, height) ==
    [p \in Pixels(<<width, height>>) |-> calculatePixelAlpha(h, f, p[1], p[2], width, height)]

\* Draw, lines 87-107: the pixel set in dst for a mask alpha and a source
\* pixel; srcColor.RGBA() gives 16-bit channels, c * 257 for the 8-bit c
maskedPixel(maskAlpha, srcColor) ==
    IF maskAlpha > 0
    THEN IF maskAlpha < 255
         THEN RGBA((srcColor[1] * 257) \div 256, (srcColor[2] * 257) \div 256,
                   (srcColor[3] * 257) \div 256,
                   ((maskAlpha * ((srcColor[4] * 257) \div 256)) \div 256) % 256)
         ELSE srcColor
    ELSE RGBA(0, 0, 0, 0)

\* Draw, lines 47-111, once the radii are resolved in the heap h
drawMasked(h, f, mask, srcR) ==
    [heap |-> h, mask |-> mask,
     dst |-> [p \in DOMAIN mask |-> maskedPixel(mask[p], srcR.px[p])]]

\* borderRadiusFilter.Draw(dst, src, options)
borderRadiusDraw(h, f, srcR) ==
    drawMasked(resolveRadii(h, f, srcR.w, srcR.h), f,
               drawRoundedRectMask(resolveRadii(h, f, srcR.w, srcR.h), f, srcR.w, srcR.h),
               srcR)

-----------------------------------------------------------------------------
\* What the storage holds at the target of an UploadImage call once the call
\* has returned

\* os.Create (imagesources/base.go:114) creates the file or truncates the one
\* that is there: until the encoder writes to it the file is empty
TruncatedFile == [size |-> 0, w |-> 0, h |-> 0, ok |-> FALSE]

Touches(res, op) == \E i \in 1..Len(res.touched) : res.touched[i].op = op

\* file is what the storage held at the target before the call, img the image
\* the call was given, res what the call returned: os.Remove (line 147) leaves
\* nothing, os.Create and an encoder that ended without error leave the
\* encoded image, as PutObject does (part_001:109), os.Create alone the empty
\* file
storedAfter(file, img, res) ==
    IF Touches(res, "os.Remove") THEN Nil
    ELSE IF Touches(res, "os.Create")
    THEN IF res.err = s_NoErr THEN Ptr(img) ELSE Ptr(TruncatedFile)
    ELSE IF Touches(res, "PutObject") THEN Ptr(img)
    ELSE file

-----------------------------------------------------------------------------
\* Requests and stored images of the model

KV(key, value) == key \o <<"=">> \o value

\* Option tokens: well formed ones of every group of options, and ones that
\* are malformed, unknown, empty, not a number or out of range
Tokens ==
    { KV(s_width, <<"4">>), KV(s_width, <<"0">>), KV(s_width, <<"a", "b", "c">>),
      KV(s_width, <<>>), KV(s_height, <<"3">>),
      KV(s_height, <<"1", "0", "0", "0", "1">>),
      KV(s_quality, <<"5", "0">>), KV(s_quality, <<"1", "0", "1">>),
      KV(s_format, <<"J", "P", "G">>), KV(s_format, <<"g", "i", "f">>),
      KV(s_background, s_blue), KV(s_background, <<"n", "o", "p", "e">>),
      KV(s_fit, s_pad), KV(s_fit, s_scaledown), KV(s_fit, <<"b", "o", "g", "u", "s">>),
      KV(s_blur, <<"5">>), KV(s_contrast, <<"1", "0">>), KV(s_rotate, s_90),
      KV(s_rotate, <<"u", "p">>), KV(s_flip, <<"h">>), KV(s_radius, <<"1", "0">>),
      s_width, <<"a", "=", "b", "=", "c">>, KV(<<"f", "o", "o">>, <<"1">>),
      <<" ">> \o s_height \o <<" ", "=", " ", "2", " ">> }

RECURSIVE Join(_)
Join(toks) ==
    IF Len(toks) = 1 THEN toks[1] ELSE toks[1] \o <<",">> \o Join(Tail(toks))

TokenSeqs(n) == UNION {[1..k -> Tokens] : k \in 1..n}

\* Requests of the README, at a hundredth of their sizes
Scenarios ==
    { Join(<<KV(s_width, <<"4">>), KV(s_height, <<"3">>), KV(s_fit, s_pad),
             KV(s_background, s_blue)>>),
      Join(<<KV(s_width, <<"4">>), KV(s_height, <<"3">>), KV(s_fit, s_pad)>>),
      Join(<<KV(s_width, <<"4">>), KV(s_height, <<"3">>), KV(s_fit, s_cover)>>),
      Join(<<KV(s_width, <<"4">>), KV(s_height, <<"3">>), KV(s_fit, s_squeeze)>>),
      Join(<<KV(s_width, <<"4">>), KV(s_height, <<"3">>), KV(s_fit, s_crop)>>),
      Join(<<KV(s_width, <<"4">>), KV(s_height, <<"3">>), KV(s_fit, s_contain)>>),
      Join(<<KV(s_blur, <<"1", "0">>), KV(s_rotate, s_90), KV(s_background, s_white)>>),
      Join(<<KV(s_sharpen, <<"1">>), KV(s_gamma, <<"1", ".", "5">>),
             KV(s_saturation, <<"2", "0">>), KV(s_brightness, <<"-", "5">>)>>) }

Requests == {Join(toks) : toks \in TokenSeqs(MaxTokens)} \cup Scenarios

\* The stored image: none, or a decoded image of one of the three formats
Sources ==
    { Nil,
      Ptr([w |-> 8, h |-> 4, format |-> s_jpeg]),
      Ptr([w |-> 2, h |-> 2, format |-> s_png]) }

-----------------------------------------------------------------------------
\* The transformation route: GET /cgi/images/tr:<options>/<image>

RunResult == [pc |-> pc, trValues |-> trValues, dest |-> dest, err |-> err,
              filters |-> filters, encoded |-> encoded]

Idle ==
    /\ fitArgs = Nil /\ fitRes = Nil /\ radiusArg = Nil /\ radiusRes = Nil
    /\ callArg = Nil /\ callRes = Nil
    /\ heap = <<>> /\ calls = <<>>

Init ==
    /\ optionsStr \in Requests
    /\ src \in Sources
    /\ pc = "request"
    /\ trValues = Nil /\ dest = Nil /\ err = NoError
    /\ filters = Nil /\ stages = <<>> /\ encoded = Nil
    /\ prev = <<>>
    /\ Idle

\* The handler up to the call of Transform: an empty options parameter and a
\* parse error end the request
ParseRequest ==
    /\ pc = "request"
    /\ \E r \in {getContextFromString(optionsStr)} :
           IF optionsStr = <<>>
           THEN /\ pc' = "rejected"
                /\ err' = Error("OptionsRequired", <<>>)
                /\ UNCHANGED <<trValues, dest>>
           ELSE /\ pc' = IF r.err = NoError THEN "parsed" ELSE "rejected"
                /\ err' = r.err
                /\ trValues' = r.tr
                /\ dest' = r.dest
    /\ UNCHANGED <<optionsStr, src, filters, stages, encoded, prev,
                   fitArgs, fitRes, radiusArg, radiusRes, callArg, callRes,
                   heap, calls>>

\* k.Transform(c.Context(), imagePath, dest, options)
RunTransform ==
    /\ pc = "parsed"
    /\ \E order \in WalkOrders(trValues[1]) :
          \E r \in {Transform(src, dest[1], trValues[1], order)} :
              /\ pc' = IF r.err = NoError THEN "done" ELSE "failed"
              /\ err' = r.err
              /\ dest' = r.dest
              /\ filters' = r.filters
              /\ stages' = r.stages
              /\ encoded' = r.encoded
    /\ UNCHANGED <<optionsStr, src, trValues, prev, fitArgs, fitRes, radiusArg, radiusRes,
                   callArg, callRes,
                   heap, calls>>

\* The same request arrives again
Repeat ==
    /\ pc \in {"rejected", "failed", "done"}
    /\ Len(prev) < MaxRuns - 1
    /\ prev' = Append(prev, RunResult)
    /\ pc' = "request"
    /\ trValues' = Nil /\ dest' = Nil /\ err' = NoError
    /\ filters' = Nil /\ stages' = <<>> /\ encoded' = Nil
    /\ UNCHANGED <<optionsStr, src, fitArgs, fitRes, radiusArg, radiusRes, callArg, callRes,
                   heap, calls>>

Next == ParseRequest \/ RunTransform \/ Repeat

Spec == Init /\ [][Next]_vars

-----------------------------------------------------------------------------
\* Calls of createFitFilter, and the filter it returns applied to a source

\* The mode names of the calls: the six modes, one with space around it, one
\* in upper case, one that is no mode, and the empty string
FitModeInputs ==
    validModes \cup { <<" ">> \o s_pad \o <<" ">>, <<"C", "o", "v", "e", "r">>,
                      <<"b", "o", "g", "u", "s">>, <<>> }

FitCalls ==
    [value : FitModeInputs, width : 0..MaxFitDim, height : 0..MaxFitDim,
     bgColor : {NilColor, Transparent, ColorRGBA(RGBA(0, 0, 255, 255))},
     srcW : 1..MaxSrcDim, srcH : 1..MaxSrcDim]

NoFitResult == [created |-> [val |-> Nil, err |-> NoError], bounds |-> Nil, drawn |-> Nil]

InitFit ==
    /\ fitArgs \in FitCalls
    /\ fitRes = NoFitResult
    /\ pc = "fit.call"
    /\ optionsStr = <<>> /\ src = Nil
    /\ trValues = Nil /\ dest = Nil /\ err = NoError
    /\ filters = Nil /\ stages = <<>> /\ encoded = Nil
    /\ prev = <<>>
    /\ radiusArg = Nil /\ radiusRes = Nil
    /\ callArg = Nil /\ callRes = Nil
    /\ heap = <<>> /\ calls = <<>>

\* createFitFilter(value, destination)
CallCreateFitFilter ==
    /\ pc = "fit.call"
    /\ \E r \in {createFitFilter(fitArgs.value, fitArgs.width, fitArgs.height,
                                 fitArgs.bgColor)} :
          /\ fitRes' = [fitRes EXCEPT !.created = r]
          /\ pc' = IF r.err = NoError THEN "fit.created" ELSE "fit.failed"
    /\ UNCHANGED <<optionsStr, src, trValues, dest, err, filters, stages, encoded, prev,
                   fitArgs, radiusArg, radiusRes, callArg, callRes,
                   heap, calls>>

\* The filter on its own in a chain, as Transform runs it: g.Bounds of the
\* source, a new image of these bounds, g.Draw
ApplyFitFilter ==
    /\ pc = "fit.created"
    /\ \E b \in {FilterBounds(fitRes.created.val[1], <<fitArgs.srcW, fitArgs.srcH>>)} :
          fitRes' = [fitRes EXCEPT
                        !.bounds = Ptr(b),
                        !.drawn = Ptr(FilterDraw(fitRes.created.val[1], NewRGBA(b),
                                                 SourceRaster(<<fitArgs.srcW, fitArgs.srcH>>)))]
    /\ pc' = "fit.drawn"
    /\ UNCHANGED <<optionsStr, src, trValues, dest, err, filters, stages, encoded, prev,
                   fitArgs, radiusArg, radiusRes, callArg, callRes,
                   heap, calls>>

NextFit == CallCreateFitFilter \/ ApplyFitFilter

SpecFit == InitFit /\ [][NextFit]_vars

-----------------------------------------------------------------------------
\* Calls of CreateBorderRadiusFilter

RadiusChars == {"0", "1", "%", "p", "x", "-", "."}

\* Every string of at most MaxRadiusLen of these characters, and the values
\* TestCreateBorderRadiusFilter passes
RadiusInputs ==
    UNION {[1..n -> RadiusChars] : n \in 0..MaxRadiusLen}
    \cup { <<"2", "5", "%">>, <<"5", "1", "%">>, <<"1", "0", "p", "x">>,
           <<"i", "n", "v", "a", "l", "i", "d">> }

InitRadius ==
    /\ radiusArg \in RadiusInputs
    /\ radiusRes = Nil
    /\ pc = "radius.call"
    /\ optionsStr = <<>> /\ src = Nil
    /\ trValues = Nil /\ dest = Nil /\ err = NoError
    /\ filters = Nil /\ stages = <<>> /\ encoded = Nil
    /\ prev = <<>>
    /\ fitArgs = Nil /\ fitRes = Nil
    /\ callArg = Nil /\ callRes = Nil
    /\ heap = <<>> /\ calls = <<>>

\* CreateBorderRadiusFilter(value)
CallCreateBorderRadiusFilter ==
    /\ pc = "radius.call"
    /\ radiusRes' = Ptr(CreateBorderRadiusFilter(radiusArg))
    /\ pc' = "radius.returned"
    /\ UNCHANGED <<optionsStr, src, trValues, dest, err, filters, stages, encoded, prev,
                   fitArgs, fitRes, radiusArg, callArg, callRes,
                   heap, calls>>

NextRadius == CallCreateBorderRadiusFilter

SpecRadius == InitRadius /\ [][NextRadius]_vars

-----------------------------------------------------------------------------
\* Calls of parseBackgroundColor

MaxHexLen == 3

HexInputChars == {"0", "8", "f", "g"}

\* Alpha values as they are written in a request
AlphaInputs ==
    {
      <<"0">>, <<"0", ".", "0">>, <<"0", ".", "2">>, <<"0", ".", "2", "5">>,
      <<"0", ".", "5">>, <<"0", ".", "7", "5">>, <<"1">>, <<"1", ".", "0">>,
      <<"1", ".", "5">>, <<"2">>, <<"1", "2", "7">>, <<"1", "2", "8">>,
      <<"2", "5", "5">>, <<"2", "5", "6">> }

\* The colour values of the calls: # and every string of at most MaxHexLen
\* of the characters above, rgba expressions of a red channel and an alpha
\* with commas or spaces between the channels, and values of every other form
ColorInputs ==
    { <<"#">> \o h : h \in UNION {[1..n -> HexInputChars] : n \in 0..MaxHexLen} }
    \cup { <<"r", "g", "b", "a", "(">> \o r \o sep \o <<"0">> \o sep \o <<"0">> \o sep
             \o a \o <<")">> :
           r \in {<<"0">>, <<"2", "5", "5">>, <<"3", "0", "0">>},
           sep \in {<<",">>, <<" ">>}, a \in AlphaInputs }
    \cup {
      <<"#", "f", "f", "f">>, <<"#", "f", "f", "0", "0", "0", "0">>,
      <<"#", "1", "2", "3", "4", "5", "6", "8", "0">>, <<"#", "f", "f", "f", "f">>,
      <<"#", "1", "2", "3", "4", "5">>, <<"#", "1", "2", "3", "4", "5", "6", "7">>,
      <<"#", "g", "g", "g", "g", "g", "g">>, <<"#", "f", "f", "0", "0", "z", "z">>,
      <<"#", "#", "f", "f", "f">>, <<"%", "2", "3", "f", "f", "f">>,
      <<"%", "2", "3", "f", "f">>, <<"%", "2">>, <<"r", "e", "d">>, <<"R", "e", "d">>,
      <<"n", "o", "t", "a", "c", "o", "l", "o", "r">>, <<>>, <<"r", "g", "b">>,
      <<"r", "g", "b", "(", "2", "5", "5", ",", "0", ",", "0", ")">>,
      <<"r", "g", "b", "(", "1", " ", "2", " ", "3", ")">>,
      <<"r", "g", "b", "(", "1", ",", "2", ",", "3", ")", "x">>,
      <<"x", " ", "r", "g", "b", "(", "1", ",", "2", ",", "3", ")">>,
      <<"r", "g", "b", "x", " ", "r", "g", "b", "(", "1", ",", "2", ",", "3", ")">>,
      <<"r", "g", "b", "(", "1", ",", "2", ")">>,
      <<"r", "g", "b", "(", "1", ",", "2", ",", "3", ",", "4", ",", "5", ")">>,
      <<"r", "g", "b", "(", "1", ",", "2", ",", "3">>,
      <<"r", "g", "b", "(", "1", ",", "2", ",", "3", ",", ")">>,
      <<"r", "g", "b", "(", "3", "0", "0", ",", "0", ",", "2", "5", "6", ")">>,
      <<"r", "g", "b", "a", "(", "1", ",", "2", ",", "3", ")">>,
      <<"r", "g", "b", "(", "1", ",", "2", ",", "3", ",", "4", ")">>,
      <<"r", "g", "b", "(", "-", "1", ",", "2", ",", "3", ")">>,
      <<"r", "g", "b", "a", "(", "0", ",", "0", ",", "0", ",", "0", ".", "5", ")">> }

InitColor ==
    /\ callArg \in ColorInputs
    /\ callRes = Nil
    /\ pc = "color.call"
    /\ optionsStr = <<>> /\ src = Nil
    /\ trValues = Nil /\ dest = Nil /\ err = NoError
    /\ filters = Nil /\ stages = <<>> /\ encoded = Nil
    /\ prev = <<>>
    /\ fitArgs = Nil /\ fitRes = Nil /\ radiusArg = Nil /\ radiusRes = Nil
    /\ heap = <<>> /\ calls = <<>>

\* parseBackgroundColor(value)
CallParseBackgroundColor ==
    /\ pc = "color.call"
    /\ callRes' = Ptr(parseBackgroundColor(callArg))
    /\ pc' = "color.returned"
    /\ UNCHANGED <<optionsStr, src, trValues, dest, err, filters, stages, encoded, prev,
                   fitArgs, fitRes, radiusArg, radiusRes, callArg,
                   heap, calls>>

NextColor == CallParseBackgroundColor

SpecColor == InitColor /\ [][NextColor]_vars

-----------------------------------------------------------------------------
\* Calls of parseRotateAngle

MaxTurns == 2

RECURSIVE Itoa(_)
Itoa(n) ==
    IF n < 10 THEN <<DigitChars[n + 1]>>
    ELSE Itoa(n \div 10) \o <<DigitChars[(n % 10) + 1]>>

\* The rotate values of the calls: the multiples of 45 degrees up to MaxTurns
\* turns, of either sign, whole and with a fraction, and the shortcuts, other
\* numbers and values that are no number
RotateInputs ==
    { sign \o Itoa(45 * k) \o frac :
        sign \in {<<>>, <<"-">>}, k \in 0..(8 * MaxTurns),
        frac \in {<<>>, <<".", "5">>, <<".", "0", "0", "0", "0", "1">>,
                  <<".", "9", "9", "9", "9", "9">>} }
    \cup {
      <<"9", "0">>, <<"c", "w">>, <<"r", "i", "g", "h", "t">>, <<"1", "8", "0">>,
      <<"f", "l", "i", "p">>, <<"2", "7", "0">>, <<"-", "9", "0">>, <<"c", "c", "w">>,
      <<"l", "e", "f", "t">>, <<"0">>, <<"C", "W">>, <<" ", "c", "w", " ">>,
      <<"L", "e", "f", "t">>, <<"+", "9", "0">>, <<"9", "0", ".", "0">>,
      <<"-", "9", "0", ".", "0">>, <<"-", "0", ".", "0", "0", "0", "0", "1">>,
      <<"0", ".", "0", "0", "0", "0", "1">>, <<"-", "0", ".", "0", "0", "1">>,
      <<"1", "2", ".", "5">>, <<"u", "p">>, <<>>, <<"a", "b", "c">>,
      <<"1", ".", "2", ".", "3">>, <<"-", "-", "5">>, <<"9", "o">>, <<"-">>, <<".">>,
      <<"4", "5", "d", "e", "g">> }

InitRotate ==
    /\ callArg \in RotateInputs
    /\ callRes = Nil
    /\ pc = "rotate.call"
    /\ optionsStr = <<>> /\ src = Nil
    /\ trValues = Nil /\ dest = Nil /\ err = NoError
    /\ filters = Nil /\ stages = <<>> /\ encoded = Nil
    /\ prev = <<>>
    /\ fitArgs = Nil /\ fitRes = Nil /\ radiusArg = Nil /\ radiusRes = Nil
    /\ heap = <<>> /\ calls = <<>>

\* parseRotateAngle(value)
CallParseRotateAngle ==
    /\ pc = "rotate.call"
    /\ callRes' = Ptr(parseRotateAngle(callArg))
    /\ pc' = "rotate.returned"
    /\ UNCHANGED <<optionsStr, src, trValues, dest, err, filters, stages, encoded, prev,
                   fitArgs, fitRes, radiusArg, radiusRes, callArg,
                   heap, calls>>

NextRotate == CallParseRotateAngle

SpecRotate == InitRotate /\ [][NextRotate]_vars

-----------------------------------------------------------------------------
\* Calls of getFilters with one numeric option, as Transform calls it for a
\* request with that option alone

StrengthOptions == {"Blur", "Brightness", "Contrast", "Gamma", "Saturation", "Sharpen"}

\* Values of the option: empty, no number, and numbers at, inside and outside
\* the ends of the ranges
StrengthInputs ==
    {
      <<>>, <<"a", "b", "c">>, <<"1", ".", "2", ".", "3">>, <<"-">>, <<"0">>,
      <<"0", ".", "0", "5">>, <<"0", ".", "1">>, <<"0", ".", "4", "9", "9", "9", "9">>,
      <<"0", ".", "5">>, <<"1">>, <<"1", ".", "5">>,
      <<"1", ".", "5", "0", "0", "0", "1">>, <<"2">>,
      <<"2", ".", "0", "0", "0", "0", "1">>, <<"2", ".", "5">>, <<"3">>, <<"-", "1">>,
      <<"-", "9", "9", ".", "5">>, <<"-", "1", "0", "0">>,
      <<"-", "1", "0", "0", ".", "0", "0", "0", "0", "1">>, <<"-", "1", "0", "1">>,
      <<"1", "0", "0">>, <<"1", "0", "0", ".", "0", "0", "0", "0", "1">>,
      <<"1", "0", "1">>, <<"2", "5", "0">>,
      <<"2", "5", "0", ".", "0", "0", "0", "0", "1">>, <<"2", "5", "1">>,
      <<"4", "9", "9">>, <<"5", "0", "0">>, <<"5", "0", "1">>, <<"+", "5">>, <<" ", "5">> }

InitStrength ==
    /\ callArg \in [t : StrengthOptions, values : StrengthInputs]
    /\ callRes = Nil
    /\ pc = "strength.call"
    /\ optionsStr = <<>> /\ src = Ptr([w |-> 8, h |-> 4, format |-> s_jpeg])
    /\ trValues = Nil /\ dest = Nil /\ err = NoError
    /\ filters = Nil /\ stages = <<>> /\ encoded = Nil
    /\ prev = <<>>
    /\ fitArgs = Nil /\ fitRes = Nil /\ radiusArg = Nil /\ radiusRes = Nil
    /\ heap = <<>> /\ calls = <<>>

\* getFilters(options, dest) on the descriptor Transform has filled in
CallGetFilters ==
    /\ pc = "strength.call"
    /\ callRes' = Ptr(getFilters(MapPut(EmptyMap, callArg.t, callArg.values),
                                 TransformDefaults(InitialDestination, src[1]),
                                 <<callArg.t>>))
    /\ pc' = "strength.returned"
    /\ UNCHANGED <<optionsStr, src, trValues, dest, err, filters, stages, encoded, prev,
                   fitArgs, fitRes, radiusArg, radiusRes, callArg,
                   heap, calls>>

NextStrength == CallGetFilters

SpecStrength == InitStrength /\ [][NextStrength]_vars

-----------------------------------------------------------------------------
\* Calls of the two substitutions of template variables

MaxPieces == 2

\* What the text of a template is put together from
TemplatePieces ==
    {
      <<"{", "{", "n", "a", "m", "e", "}", "}">>,
      <<"{", "{", "c", "i", "t", "y", "}", "}">>,
      <<"{", "{", ".", "n", "a", "m", "e", "}", "}">>,
      <<"{", "{", ".", "c", "i", "t", "y", "}", "}">>,
      <<"{", "{", " ", "n", "a", "m", "e", " ", "}", "}">>, <<"H", "i", " ">>,
      <<"{", "{">>, <<"}", "}">>, <<"{", "{", "n", "a", "m", "e">>,
      <<"{", "{", "}", "}">> }

RECURSIVE Concat(_)
Concat(ps) == IF Len(ps) = 0 THEN <<>> ELSE Head(ps) \o Concat(Tail(ps))

TemplateBodies == {Concat(ps) : ps \in UNION {[1..n -> TemplatePieces] : n \in 1..MaxPieces}}

s_name == <<"n", "a", "m", "e">>

s_city == <<"c", "i", "t", "y">>

\* The variable maps of the calls: empty, one name, a name whose value is a
\* token of another variable, and a value that holds a quote
TemplateVars ==
    { EmptyMap,
      MapPut(EmptyMap, s_name, <<"A", "d", "a">>),
      MapPut(MapPut(EmptyMap, s_name, s_open \o s_city \o s_close), s_city, <<"R", "o", "m", "e">>),
      MapPut(EmptyMap, s_city, <<"\"">>) }

InitSubstitute ==
    /\ callArg \in [data : {TextTemplate(b) : b \in TemplateBodies}, vars : TemplateVars]
    /\ callRes = Nil
    /\ pc = "substitute.call"
    /\ optionsStr = <<>> /\ src = Nil
    /\ trValues = Nil /\ dest = Nil /\ err = NoError
    /\ filters = Nil /\ stages = <<>> /\ encoded = Nil
    /\ prev = <<>>
    /\ fitArgs = Nil /\ fitRes = Nil /\ radiusArg = Nil /\ radiusRes = Nil
    /\ heap = <<>> /\ calls = <<>>

\* internal/template: substituteVariables and json.Unmarshal
CallSubstituteVariables ==
    /\ pc = "substitute.call"
    /\ callRes' = Ptr(substituteAndParse(callArg.data, callArg.vars))
    /\ pc' = "substitute.regexp"
    /\ UNCHANGED <<optionsStr, src, trValues, dest, err, filters, stages, encoded, prev,
                   fitArgs, fitRes, radiusArg, radiusRes, callArg,
                   heap, calls>>

\* internal/templatesources: substituteVarsAndUnmarshalToRootNode
CallSubstituteVarsAndUnmarshal ==
    /\ pc = "substitute.call"
    /\ callRes' = Ptr(substituteVarsAndUnmarshalToRootNode(callArg.data, callArg.vars))
    /\ pc' = "substitute.template"
    /\ UNCHANGED <<optionsStr, src, trValues, dest, err, filters, stages, encoded, prev,
                   fitArgs, fitRes, radiusArg, radiusRes, callArg,
                   heap, calls>>

NextSubstitute == CallSubstituteVariables \/ CallSubstituteVarsAndUnmarshal

SpecSubstitute == InitSubstitute /\ [][NextSubstitute]_vars

-----------------------------------------------------------------------------
\* Direct calls of RenderTemplate on stages of leaves and of layers of up to
\* MaxChildren leaves

MaxChildren == 2

PathA == <<"a">>

PathB == <<"b">>

ImageNode(path, children) == Node("Image", Attrs(0, 0, <<>>, <<>>, path), children)

TextNode == Node("Text", Attrs(0, 0, <<"t">>, <<>>, <<>>), <<>>)

TemplateLeaves == {ImageNode(PathA, <<>>), ImageNode(PathB, <<>>), TextNode}

NodeSeqs(S) == UNION {[1..n -> S] : n \in 0..MaxChildren}

TemplateLayers ==
    {Node("Layer", Attrs(0, 0, <<>>, <<>>, <<>>), c) : c \in NodeSeqs(TemplateLeaves)}

\* An image without a path, and an image and a text that have children
TemplateOddNodes ==
    {ImageNode(<<>>, <<>>), ImageNode(PathA, <<TextNode>>),
     Node("Text", Attrs(0, 0, <<"t">>, <<>>, <<>>), <<ImageNode(PathB, <<>>)>>)}

Stage(width, height, children) ==
    Node("Stage", Attrs(width, height, <<>>, <<>>, <<>>), children)

CanvasDims == {0 - 1, 0, 1, MaxCanvas, MaxCanvas + 1}

TemplateRoots ==
    {Stage(2, 2, c) : c \in NodeSeqs(TemplateLeaves)}
    \cup {Stage(2, 2, <<a, b>>) : a \in TemplateLayers, b \in TemplateLeaves \cup TemplateLayers}
    \cup {Stage(2, 2, <<a, b>>) : a \in TemplateLeaves, b \in TemplateLayers}
    \cup {Stage(2, 2, <<o, TextNode>>) : o \in TemplateOddNodes}
    \cup {Stage(2, 2, <<Node("Layer", Attrs(0, 0, <<>>, <<>>, <<>>), <<o, l>>)>>) :
              o \in TemplateOddNodes, l \in TemplateLeaves}
    \cup {Stage(w, h, <<TextNode>>) : w \in CanvasDims, h \in CanvasDims}
    \cup {Node("Image", Attrs(w, 2, <<>>, <<>>, PathA), <<TextNode>>) : w \in {0, 2}}

TemplateEnvs ==
    [found : {TRUE}, missing : {{}, {PathB}}, font : BOOLEAN]
    \cup [found : {FALSE}, missing : {{}}, font : {TRUE}]

InitTemplate ==
    /\ callArg \in [root : TemplateRoots, env : TemplateEnvs]
    /\ callRes = Nil
    /\ pc = "template.call"
    /\ optionsStr = <<>> /\ src = Nil
    /\ trValues = Nil /\ dest = Nil /\ err = NoError
    /\ filters = Nil /\ stages = <<>> /\ encoded = Nil
    /\ prev = <<>>
    /\ fitArgs = Nil /\ fitRes = Nil /\ radiusArg = Nil /\ radiusRes = Nil
    /\ heap = <<>> /\ calls = <<>>

CallRenderTemplate ==
    /\ pc = "template.call"
    /\ callRes' = Ptr(RenderTemplate(callArg.env, callArg.root))
    /\ pc' = "template.returned"
    /\ UNCHANGED <<optionsStr, src, trValues, dest, err, filters, stages, encoded, prev,
                   fitArgs, fitRes, radiusArg, radiusRes, callArg,
                   heap, calls>>

NextTemplate == CallRenderTemplate

SpecTemplate == InitTemplate /\ [][NextTemplate]_vars

-----------------------------------------------------------------------------
\* Direct calls of the sources: on every path of up to MaxPathLen characters,
\* with and without a ".png" at its end, and on stored images around the
\* limits under configuration files that set both limits, one, or none

MaxPathLen == 4

PathChars == {"a", ".", "/"}

s_dotpng == <<".", "p", "n", "g">>

ShortPaths == UNION {[1..n -> PathChars] : n \in 0..MaxPathLen}

SourcePaths ==
    ShortPaths \cup {p \o s_dotpng : p \in ShortPaths} \cup {<<"a", "/", ".", ".", "/", "a">>}

StoredImage(size, w, h, ok) == [size |-> size, w |-> w, h |-> h, ok |-> ok]

ConfigFile(dims, sizes) ==
    [k \in {"images.max_image_dimension" : d \in dims}
           \cup {"images.max_file_size_in_bytes" : z \in sizes} |->
        IF k = "images.max_image_dimension" THEN CHOOSE d \in dims : TRUE
        ELSE CHOOSE z \in sizes : TRUE]

ConfigFiles == {ConfigFile(d, z) : d \in {{}, {2}}, z \in {{}, {1}}}

StoredTemplate == TextTemplate(<<"H", "i">>)

SourceCall(fileName, file, data, img, cfgFile) ==
    [fileName |-> fileName, file |-> file, data |-> data, img |-> img, cfgFile |-> cfgFile]

PathCalls ==
    {SourceCall(p, Ptr(StoredImage(1, 1, 1, TRUE)), Ptr(StoredTemplate),
                StoredImage(1, 1, 1, TRUE), ConfigFile({2}, {1})) : p \in SourcePaths}
    \cup {SourceCall(p, Nil, Nil, StoredImage(1, 1, 1, TRUE), ConfigFile({2}, {1})) :
              p \in SourcePaths}

LimitSizes == {1, 2, DefaultMaxFileSize, DefaultMaxFileSize + 1}

LimitDims == {1, 3, DefaultMaxDimension, DefaultMaxDimension + 1}

LimitImages ==
    {StoredImage(z, w, h, ok) : z \in LimitSizes, w \in LimitDims, h \in LimitDims,
                                ok \in BOOLEAN}

LimitCalls ==
    {SourceCall(<<"a">> \o s_dotpng, Ptr(i), Ptr(StoredTemplate), i, c) :
         i \in LimitImages, c \in ConfigFiles}

InitSource ==
    /\ callArg \in PathCalls \cup LimitCalls
    /\ callRes = Nil
    /\ pc = "source.call"
    /\ optionsStr = <<>> /\ src = Nil
    /\ trValues = Nil /\ dest = Nil /\ err = NoError
    /\ filters = Nil /\ stages = <<>> /\ encoded = Nil
    /\ prev = <<>>
    /\ fitArgs = Nil /\ fitRes = Nil /\ radiusArg = Nil /\ radiusRes = Nil
    /\ heap = <<>> /\ calls = <<>>

CallGetImageLocal ==
    /\ pc = "source.call"
    /\ callRes' = Ptr(GetImageLocal(callArg.fileName, callArg.file,
                   SourceImageValidations(LoadConfig(callArg.cfgFile))))
    /\ pc' = "source.local.GetImage"
    /\ UNCHANGED <<optionsStr, src, trValues, dest, err, filters, stages, encoded, prev,
                   fitArgs, fitRes, radiusArg, radiusRes, callArg,
                   heap, calls>>

CallUploadImageLocal ==
    /\ pc = "source.call"
    /\ callRes' = Ptr(UploadImageLocal(callArg.fileName, callArg.img,
                   SourceImageValidations(LoadConfig(callArg.cfgFile))))
    /\ pc' = "source.local.UploadImage"
    /\ UNCHANGED <<optionsStr, src, trValues, dest, err, filters, stages, encoded, prev,
                   fitArgs, fitRes, radiusArg, radiusRes, callArg,
                   heap, calls>>

CallGetImageS3 ==
    /\ pc = "source.call"
    /\ callRes' = Ptr(GetImageS3(callArg.fileName, callArg.file,
                   SourceImageValidations(LoadConfig(callArg.cfgFile))))
    /\ pc' = "source.s3.GetImage"
    /\ UNCHANGED <<optionsStr, src, trValues, dest, err, filters, stages, encoded, prev,
                   fitArgs, fitRes, radiusArg, radiusRes, callArg,
                   heap, calls>>

CallUploadImageS3 ==
    /\ pc = "source.call"
    /\ callRes' = Ptr(UploadImageS3(callArg.fileName, callArg.img,
                   SourceImageValidations(LoadConfig(callArg.cfgFile))))
    /\ pc' = "source.s3.UploadImage"
    /\ UNCHANGED <<optionsStr, src, trValues, dest, err, filters, stages, encoded, prev,
                   fitArgs, fitRes, radiusArg, radiusRes, callArg,
                   heap, calls>>

CallGetTemplateLocal ==
    /\ pc = "source.call"
    /\ callRes' = Ptr(GetTemplateLocal(callArg.fileName, callArg.data, EmptyMap))
    /\ pc' = "source.local.GetTemplate"
    /\ UNCHANGED <<optionsStr, src, trValues, dest, err, filters, stages, encoded, prev,
                   fitArgs, fitRes, radiusArg, radiusRes, callArg,
                   heap, calls>>

CallGetTemplateS3 ==
    /\ pc = "source.call"
    /\ callRes' = Ptr(GetTemplateS3(callArg.fileName, callArg.data, EmptyMap))
    /\ pc' = "source.s3.GetTemplate"
    /\ UNCHANGED <<optionsStr, src, trValues, dest, err, filters, stages, encoded, prev,
                   fitArgs, fitRes, radiusArg, radiusRes, callArg,
                   heap, calls>>

NextSource ==
    \/ CallGetImageLocal
    \/ CallUploadImageLocal
    \/ CallGetImageS3
    \/ CallUploadImageS3
    \/ CallGetTemplateLocal
    \/ CallGetTemplateS3

SpecSource == InitSource /\ [][NextSource]_vars

-----------------------------------------------------------------------------
\* Two calls in progress at once: transformation requests and template
\* renders, interleaved at every step.  What a call allocates and reaches by
\* pointer (the *DestinationImage of getContextFromString, the *models.Node of
\* GetTemplateSubstituted) lives in heap, under the address the call holds.

TransformCall(str, source) ==
    [kind |-> "transform", optionsStr |-> str, src |-> source, root |-> Nil, env |-> Nil]

RenderCall(root, env) ==
    [kind |-> "render", optionsStr |-> <<>>, src |-> Nil, root |-> Ptr(root), env |-> Ptr(env)]

ConcurrentRequests ==
    { KV(s_width, <<"4">>),
      Join(<<KV(s_width, <<"4">>), KV(s_height, <<"3">>), KV(s_fit, s_pad),
             KV(s_background, s_blue)>>),
      Join(<<KV(s_height, <<"2">>), KV(s_format, s_webp)>>),
      Join(<<KV(s_blur, <<"5">>), KV(s_rotate, s_90)>>),
      KV(s_radius, <<"1", "0">>),
      KV(s_quality, <<"0">>) }

ConcurrentCalls ==
    {TransformCall(r, s) : r \in ConcurrentRequests, s \in {Ptr([w |-> 8, h |-> 4, format |-> s_jpeg]), Nil}}
    \cup {TransformCall(KV(s_width, <<"4">>), Ptr([w |-> 2, h |-> 2, format |-> s_png]))}
    \cup {RenderCall(Stage(2, 2, <<TextNode, ImageNode(PathA, <<>>)>>),
                     [found |-> TRUE, missing |-> {}, font |-> TRUE]),
          RenderCall(Stage(1, 3, <<ImageNode(PathB, <<>>), TextNode>>),
                     [found |-> TRUE, missing |-> {PathB}, font |-> TRUE])}

\* A call that has not started
NewCall ==
    [at |-> "request", tr |-> Nil, dest |-> 0, img |-> Nil, root |-> 0, err |-> NoError,
     filters |-> Nil, stages |-> <<>>, encoded |-> Nil, rendered |-> Nil]

InitConcurrent ==
    /\ callArg \in [1..2 -> ConcurrentCalls]
    /\ calls = [i \in 1..2 |-> NewCall]
    /\ heap = <<>>
    /\ callRes = Nil
    /\ pc = "concurrent"
    /\ optionsStr = <<>> /\ src = Nil
    /\ trValues = Nil /\ dest = Nil /\ err = NoError
    /\ filters = Nil /\ stages = <<>> /\ encoded = Nil
    /\ prev = <<>>
    /\ fitArgs = Nil /\ fitRes = Nil /\ radiusArg = Nil /\ radiusRes = Nil

\* getContextFromString(optionsStr): the descriptor is a new object
StepParse ==
    \E i \in 1..2 :
        /\ pc = "concurrent" /\ callArg[i].kind = "transform" /\ calls[i].at = "request"
        /\ \E r \in {getContextFromString(callArg[i].optionsStr)} :
               IF callArg[i].optionsStr = <<>> \/ r.err # NoError
               THEN /\ calls' = [calls EXCEPT ![i].at = "rejected", ![i].err = r.err]
                    /\ heap' = heap
               ELSE /\ calls' = [calls EXCEPT ![i].at = "parsed", ![i].tr = r.tr,
                                              ![i].dest = NewAddress(heap)]
                    /\ heap' = Store(heap, NewAddress(heap), r.dest[1])
        /\ UNCHANGED <<optionsStr, src, pc, trValues, dest, err, filters, stages, encoded,
                       prev, fitArgs, fitRes, radiusArg, radiusRes, callArg, callRes>>

\* Transform, lines 25-29: source.GetImage(ctx, path)
StepFetch ==
    \E i \in 1..2 :
        /\ pc = "concurrent" /\ calls[i].at = "parsed"
        /\ calls' = IF callArg[i].src = Nil
                    THEN [calls EXCEPT ![i].at = "failed",
                                       ![i].err = Error("ErrSourceImageNotFound", <<>>)]
                    ELSE [calls EXCEPT ![i].at = "fetched", ![i].img = callArg[i].src]
        /\ UNCHANGED <<optionsStr, src, pc, trValues, dest, err, filters, stages, encoded,
                       prev, fitArgs, fitRes, radiusArg, radiusRes, callArg, callRes, heap>>

\* Transform, lines 31-43: the defaults are written through the dest pointer
StepDefaults ==
    \E i \in 1..2 :
        /\ pc = "concurrent" /\ calls[i].at = "fetched"
        /\ heap' = Store(heap, calls[i].dest,
                         TransformDefaults(heap[calls[i].dest], calls[i].img[1]))
        /\ calls' = [calls EXCEPT ![i].at = "defaults"]
        /\ UNCHANGED <<optionsStr, src, pc, trValues, dest, err, filters, stages, encoded,
                       prev, fitArgs, fitRes, radiusArg, radiusRes, callArg, callRes>>

\* Transform, lines 45-49: getFilters(options, dest)
StepFilters ==
    \E i \in 1..2 :
        /\ pc = "concurrent" /\ calls[i].at = "defaults"
        /\ \E order \in WalkOrders(calls[i].tr[1]) :
              \E fs \in {getFilters(calls[i].tr[1], heap[calls[i].dest], order)} :
                  calls' = IF fs.err # NoError
                           THEN [calls EXCEPT ![i].at = "failed",
                                    ![i].err = Error("ErrTransformationsNotFound",
                                                     <<fs.err.kind>> \o fs.err.detail)]
                           ELSE [calls EXCEPT ![i].at = "filters", ![i].filters = fs.val]
        /\ UNCHANGED <<optionsStr, src, pc, trValues, dest, err, filters, stages, encoded,
                       prev, fitArgs, fitRes, radiusArg, radiusRes, callArg, callRes, heap>>

\* Transform, lines 51-66: the destination image, its background, g.Draw
StepDraw ==
    \E i \in 1..2 :
        /\ pc = "concurrent" /\ calls[i].at = "filters"
        /\ calls' = [calls EXCEPT ![i].at = "drawn",
                        ![i].stages =
                            GiftDrawAll(calls[i].filters[1],
                                TransformCanvas(heap[calls[i].dest],
                                    NewRGBA(GiftBounds(calls[i].filters[1],
                                                       <<calls[i].img[1].w, calls[i].img[1].h>>))),
                                SourceRaster(<<calls[i].img[1].w, calls[i].img[1].h>>))]
        /\ UNCHANGED <<optionsStr, src, pc, trValues, dest, err, filters, stages, encoded,
                       prev, fitArgs, fitRes, radiusArg, radiusRes, callArg, callRes, heap>>

\* Transform, line 69: formatTo(dst, dest.Format, dest.Quality)
StepEncode ==
    \E i \in 1..2 :
        /\ pc = "concurrent" /\ calls[i].at = "drawn"
        /\ \E r \in {TransformEncode(heap[calls[i].dest], calls[i].filters, calls[i].stages)} :
               calls' = [calls EXCEPT ![i].at = IF r.err = NoError THEN "done" ELSE "failed",
                                      ![i].err = r.err, ![i].encoded = r.encoded]
        /\ UNCHANGED <<optionsStr, src, pc, trValues, dest, err, filters, stages, encoded,
                       prev, fitArgs, fitRes, radiusArg, radiusRes, callArg, callRes, heap>>

\* RenderTemplate, lines 32-35: GetTemplateSubstituted returns a new node tree
StepLoadTemplate ==
    \E i \in 1..2 :
        /\ pc = "concurrent" /\ callArg[i].kind = "render" /\ calls[i].at = "request"
        /\ calls' = [calls EXCEPT ![i].at = "loaded", ![i].root = NewAddress(heap)]
        /\ heap' = Store(heap, NewAddress(heap), callArg[i].root[1])
        /\ UNCHANGED <<optionsStr, src, pc, trValues, dest, err, filters, stages, encoded,
                       prev, fitArgs, fitRes, radiusArg, radiusRes, callArg, callRes>>

\* RenderTemplate, lines 37-66: canvas, walk of the tree, png.Encode
StepRender ==
    \E i \in 1..2 :
        /\ pc = "concurrent" /\ calls[i].at = "loaded"
        /\ calls' = [calls EXCEPT ![i].at = "done",
                        ![i].rendered = Ptr(RenderTemplate(callArg[i].env[1], heap[calls[i].root]))]
        /\ UNCHANGED <<optionsStr, src, pc, trValues, dest, err, filters, stages, encoded,
                       prev, fitArgs, fitRes, radiusArg, radiusRes, callArg, callRes, heap>>

NextConcurrent ==
    \/ StepParse
    \/ StepFetch
    \/ StepDefaults
    \/ StepFilters
    \/ StepDraw
    \/ StepEncode
    \/ StepLoadTemplate
    \/ StepRender

SpecConcurrent == InitConcurrent /\ [][NextConcurrent]_vars

-----------------------------------------------------------------------------
\* Draws of a border-radius filter

MaxSide == 6

\* The radius values of the draws: pixels, with and without the suffix, and
\* percentages
RoundValues ==
    { <<"0">>, <<"1">>, <<"2">>, <<"3">>, <<"9">>, <<"1", ".", "5">>, <<"2", ".", "5">>,
      <<"2", "p", "x">>, <<"0", "%">>, <<"1", "0", "%">>, <<"2", "5", "%">>,
      <<"5", "0", "%">>, <<"6", "0", "%">>, <<"x">> }

\* The source pixels' colours, as color.RGBA: opaque, half transparent and
\* transparent
SourceColours == {RGBA(200, 100, 50, 255), RGBA(100, 50, 25, 128), RGBA(0, 0, 0, 0)}

ColourRaster(width, height, c) ==
    [w |-> width, h |-> height, px |-> [p \in Pixels(<<width, height>>) |-> c]]

RoundCalls ==
    [value : RoundValues, w : 1..MaxSide, h : 1..MaxSide, colour : SourceColours]

InitRound ==
    /\ callArg \in RoundCalls
    /\ callRes = Nil
    /\ pc = "round.call"
    /\ heap = <<>> /\ calls = <<>>
    /\ optionsStr = <<>> /\ src = Nil
    /\ trValues = Nil /\ dest = Nil /\ err = NoError
    /\ filters = Nil /\ stages = <<>> /\ encoded = Nil
    /\ prev = <<>>
    /\ fitArgs = Nil /\ fitRes = Nil
    /\ radiusArg = Nil /\ radiusRes = Nil

\* The value the parser builds (value_parsers.go:254, 262) put in the heap and
\* the filter built over its address (filter_border_radius.go:27-32)
BuildRoundFilter ==
    /\ pc = "round.call"
    /\ \E radii \in {parseBorderRadiusValue(callArg.value).val} :
          IF radii = Nil
          THEN /\ pc' = "round.invalid"
               /\ UNCHANGED <<heap, callRes>>
          ELSE /\ heap' = Store(heap, NewAddress(heap), radii[1])
               /\ callRes' = [filter |-> borderRadiusFilter(NewAddress(heap)),
                              parsed |-> radii[1], mask |-> Nil, dst |-> Nil]
               /\ pc' = "round.built"
    /\ UNCHANGED <<optionsStr, src, trValues, dest, err, filters, stages, encoded, prev,
                   fitArgs, fitRes, radiusArg, radiusRes, callArg, calls>>

\* f.Draw(dst, src, options), as the chain of a request calls it once
DrawRound ==
    /\ pc = "round.built"
    /\ \E r \in {borderRadiusDraw(heap, callRes.filter,
                                  ColourRaster(callArg.w, callArg.h, callArg.colour))} :
          /\ heap' = r.heap
          /\ callRes' = [callRes EXCEPT !.mask = Ptr(r.mask), !.dst = Ptr(r.dst)]
    /\ pc' = "round.drawn"
    /\ UNCHANGED <<optionsStr, src, trValues, dest, err, filters, stages, encoded, prev,
                   fitArgs, fitRes, radiusArg, radiusRes, callArg, calls>>

NextRound == BuildRoundFilter \/ DrawRound

SpecRound == InitRound /\ [][NextRound]_vars

-----------------------------------------------------------------------------
\* Calls whose context is cancelled while they are in progress.  The context
\* of call i is callRes[i]: whether it is cancelled, and where the call was
\* when it was.  The steps of the calls are those above: Transform hands ctx
\* to source.GetImage (base_transform.go:26), which does not read it
\* (imagesources/base.go:57-92), and RenderTemplate to GetTemplateSubstituted
\* and renderNode (base_template.go:32, 56); none of them reads ctx.Err() or
\* ctx.Done().

Background == [cancelled |-> FALSE, at |-> "never"]

InitCancel ==
    /\ callArg \in [1..2 -> ConcurrentCalls]
    /\ callArg[1].kind = "transform" /\ callArg[2].kind = "render"
    /\ calls = [i \in 1..2 |-> NewCall]
    /\ heap = <<>>
    /\ callRes = [i \in 1..2 |-> Background]
    /\ pc = "concurrent"
    /\ optionsStr = <<>> /\ src = Nil
    /\ trValues = Nil /\ dest = Nil /\ err = NoError
    /\ filters = Nil /\ stages = <<>> /\ encoded = Nil
    /\ prev = <<>>
    /\ fitArgs = Nil /\ fitRes = Nil /\ radiusArg = Nil /\ radiusRes = Nil

\* The caller's cancel(), or the deadline of the context passing
CancelContext ==
    \E i \in 1..2 :
        /\ pc = "concurrent" /\ ~callRes[i].cancelled
        /\ calls[i].at \notin {"done", "failed", "rejected"}
        /\ callRes' = [callRes EXCEPT ![i] = [cancelled |-> TRUE, at |-> calls[i].at]]
        /\ UNCHANGED <<optionsStr, src, pc, trValues, dest, err, filters, stages, encoded,
                       prev, fitArgs, fitRes, radiusArg, radiusRes, callArg, heap, calls>>

NextCancel ==
    \/ StepParse
    \/ StepFetch
    \/ StepDefaults
    \/ StepFilters
    \/ StepDraw
    \/ StepEncode
    \/ StepLoadTemplate
    \/ StepRender
    \/ CancelContext

SpecCancel == InitCancel /\ [][NextCancel]_vars

-----------------------------------------------------------------------------
\* What a request asks for, read off its option string

RequestTokens == Split(optionsStr, ",")

TokenKey(tok) == TrimSpace(Split(tok, "=")[1])

TokenValue(tok) == TrimSpace(Split(tok, "=")[2])

\* The request has a key=value token for the key
Supplies(key) ==
    \E i \in 1..Len(RequestTokens) :
        Len(Split(RequestTokens[i], "=")) = 2 /\ TokenKey(RequestTokens[i]) = key

\* The value of the last token for the key
Supplied(key) ==
    TokenValue(RequestTokens[CHOOSE i \in 1..Len(RequestTokens) :
        /\ Len(Split(RequestTokens[i], "=")) = 2 /\ TokenKey(RequestTokens[i]) = key
        /\ \A j \in (i + 1)..Len(RequestTokens) :
              ~(Len(Split(RequestTokens[j], "=")) = 2 /\ TokenKey(RequestTokens[j]) = key)])

\* The filters of a request that was served
Built == filters[1]

-----------------------------------------------------------------------------
\* Filter order

\* The place of an operation in the canonical order: fit, then flip and
\* rotate, then the colour adjustments, then blur and sharpen, then the radius
CanonicalRank(op) ==
    CASE op = "Fit" -> 1
      [] op \in {"Flip", "Rotate"} -> 2
      [] op \in {"Brightness", "Contrast", "Gamma", "Saturation"} -> 3
      [] op \in {"Blur", "Sharpen"} -> 4
      [] op = "BorderRadius" -> 5

\* C1: the filters of every served request are in the canonical order: fit
\* first, then flip and rotate, then brightness, contrast, gamma and
\* saturation, then blur and sharpen, then the border radius.
C1_CanonicalOrder ==
    pc = "done" =>
        \A i, j \in 1..Len(Built) :
            i < j => CanonicalRank(Built[i].op) <= CanonicalRank(Built[j].op)

\* C2: two runs of the same request on the same stored image give the same
\* descriptor and the same filters, with the same arguments in the same order.
C2_RunsAgree ==
    (pc = "done" /\ Len(prev) > 0 /\ prev[1].pc = "done") =>
        (prev[1].dest = dest /\ prev[1].filters = filters)

-----------------------------------------------------------------------------
\* Errors of the option parser

RecognizedKeys ==
    {s_width, s_height, s_format, s_quality, s_background, s_flip, s_blur, s_brightness,
     s_contrast, s_fit, s_gamma, s_rotate, s_saturation, s_sharpen, s_radius}

\* v is an integer in lo..hi
IntegerIn(v, lo, hi) == Atoi(v).ok /\ Atoi(v).val >= lo /\ Atoi(v).val <= hi

\* The error a token calls for, "none" for a token that is in order
TokenError(tok) ==
    IF Len(Split(tok, "=")) # 2 THEN "MalformedOption"
    ELSE IF TokenKey(tok) \notin RecognizedKeys THEN "UnknownOption"
    ELSE IF TokenKey(tok) = s_width /\ ~IntegerIn(TokenValue(tok), 1, 10000)
    THEN "InvalidWidth"
    ELSE IF TokenKey(tok) = s_height /\ ~IntegerIn(TokenValue(tok), 1, 10000)
    THEN "InvalidHeight"
    ELSE IF TokenKey(tok) = s_quality /\ ~IntegerIn(TokenValue(tok), 1, 100)
    THEN "InvalidQuality"
    ELSE IF TokenKey(tok) = s_format
            /\ ToLower(TokenValue(tok)) \notin {s_jpg, s_jpeg, s_png, s_webp}
    THEN "InvalidFormat"
    ELSE IF TokenKey(tok) = s_background /\ parseBackgroundColor(TokenValue(tok)).val = Nil
    THEN "InvalidBackground"
    ELSE "none"

Offending == {i \in 1..Len(RequestTokens) : TokenError(RequestTokens[i]) # "none"}

FirstOffending == CHOOSE i \in Offending : \A j \in Offending : i <= j

\* C4: when a token of the request is malformed, has an unknown key or an
\* invalid value for a descriptor key, the parser returns the error of the
\* first such token, and neither a descriptor nor an operation set.
C4_AllOrNothing ==
    (pc # "request" /\ Offending # {}) =>
        /\ pc = "rejected"
        /\ err.kind = TokenError(RequestTokens[FirstOffending])
        /\ dest = Nil /\ trValues = Nil

\* A rejected request whose second token has two '=' and whose first is in order
C4_Witness ==
    /\ pc = "rejected" /\ err.kind = "MalformedOption"
    /\ Len(RequestTokens) = 2 /\ Offending = {2}
    /\ Len(Split(RequestTokens[2], "=")) = 3

\* A token for width, height or quality whose value is empty, no number or
\* out of range
BadNumberToken(tok) ==
    /\ Len(Split(tok, "=")) = 2
    /\ \/ TokenKey(tok) \in {s_width, s_height} /\ ~IntegerIn(TokenValue(tok), 1, 10000)
       \/ TokenKey(tok) = s_quality /\ ~IntegerIn(TokenValue(tok), 1, 100)

\* C5: the descriptor of every encoded image has a quality in 1..100, a
\* format among jpeg, png and webp, and a width and height in 1..10000 when
\* the request set them; a request with a width, height or quality token
\* whose value is empty, no number or out of range gets no descriptor.
C5_DescriptorInRange ==
    /\ encoded # Nil =>
          /\ dest[1].Quality >= 1 /\ dest[1].Quality <= 100
          /\ encoded[1].quality = dest[1].Quality
          /\ dest[1].Format \in {s_jpeg, s_png, s_webp}
          /\ encoded[1].format = dest[1].Format
          /\ Supplies(s_width) => dest[1].Width >= 1 /\ dest[1].Width <= 10000
          /\ Supplies(s_height) => dest[1].Height >= 1 /\ dest[1].Height <= 10000
    /\ (pc # "request" /\ \E i \in 1..Len(RequestTokens) : BadNumberToken(RequestTokens[i])) =>
          dest = Nil /\ encoded = Nil /\ pc = "rejected"

\* An encoded image of a request that sets the quality and the format
C5_Witness ==
    /\ pc = "done" /\ encoded # Nil
    /\ Supplies(s_quality) /\ dest[1].Quality = 50
    /\ Supplies(s_format) /\ dest[1].Format = s_jpeg

\* A request with an out-of-range height that was rejected
C5_RejectedWitness ==
    /\ pc = "rejected" /\ err.kind = "InvalidHeight" /\ dest = Nil
    /\ \E i \in 1..Len(RequestTokens) : BadNumberToken(RequestTokens[i])

-----------------------------------------------------------------------------
\* Border-radius values

\* A number that is not negative, with or without px, or a percentage from 0
\* to 50 with %
ValidRadius(v) ==
    IF HasSuffix(v, <<"%">>)
    THEN /\ ParseFloat(TrimSuffix(v, <<"%">>)).ok
         /\ ParseFloat(TrimSuffix(v, <<"%">>)).val >= 0
         /\ ParseFloat(TrimSuffix(v, <<"%">>)).val <= 50 * Unit
    ELSE /\ ParseFloat(TrimSuffix(v, s_px)).ok
         /\ ParseFloat(TrimSuffix(v, s_px)).val >= 0

\* C6: CreateBorderRadiusFilter returns a filter and no error for every valid
\* radius value, and no filter and an error for every other value.
C6_RadiusFilterCreated ==
    pc = "radius.returned" =>
        IF ValidRadius(radiusArg)
        THEN radiusRes[1].val # Nil /\ radiusRes[1].err = NoError
        ELSE radiusRes[1].val = Nil /\ radiusRes[1].err # NoError

-----------------------------------------------------------------------------
\* Fit modes

FitMode == TrimSpace(fitArgs.value)

BothSet == fitArgs.width > 0 /\ fitArgs.height > 0

FitFailedWith(kind) ==
    pc = "fit.failed" /\ fitRes.created.val = Nil /\ fitRes.created.err.kind = kind

\* C7: createFitFilter fails with InvalidFitMode for a name that is none of
\* the six modes; for a mode, it fails with FitRequiresDimensions when width
\* and height are both 0, fails for cover, squeeze, crop and pad unless both
\* are set, and returns a filter for contain and scaledown when one is set.
C7_FitCreation ==
    pc # "fit.call" =>
        /\ FitMode \notin validModes => FitFailedWith("InvalidFitMode")
        /\ (FitMode \in validModes /\ fitArgs.width = 0 /\ fitArgs.height = 0) =>
              FitFailedWith("FitRequiresDimensions")
        /\ (FitMode \in {s_cover, s_squeeze, s_crop, s_pad} /\ ~BothSet) =>
              pc = "fit.failed" /\ fitRes.created.val = Nil /\ fitRes.created.err # NoError
        /\ (FitMode \in {s_contain, s_scaledown} /\ (fitArgs.width > 0 \/ fitArgs.height > 0)) =>
              pc # "fit.failed" /\ fitRes.created.val # Nil /\ fitRes.created.err = NoError

\* A crop with a width and no height, which failed
C7_Witness ==
    /\ pc = "fit.failed" /\ FitMode = s_crop /\ fitArgs.width > 0 /\ fitArgs.height = 0
    /\ fitRes.created.err.kind = "FitRequiresBoth"

\* A scaledown with a height only, which returned a filter
C7_OneDimensionWitness ==
    /\ pc = "fit.created" /\ FitMode = s_scaledown /\ fitArgs.width = 0 /\ fitArgs.height > 0
    /\ fitRes.created.val # Nil

\* C8: the image a scaledown fit draws is no wider and no higher than the
\* source, and no wider than a requested width and no higher than a requested
\* height.
C8_ScaleDownNeverGrows ==
    (pc = "fit.drawn" /\ FitMode = s_scaledown) =>
        /\ Size(fitRes.drawn[1]) = fitRes.bounds[1]
        /\ fitRes.drawn[1].w <= fitArgs.srcW /\ fitRes.drawn[1].h <= fitArgs.srcH
        /\ fitArgs.width > 0 => fitRes.drawn[1].w <= fitArgs.width
        /\ fitArgs.height > 0 => fitRes.drawn[1].h <= fitArgs.height
        /\ \A p \in DOMAIN fitRes.drawn[1].px :
              fitRes.drawn[1].px[p].img => p[1] < fitArgs.srcW /\ p[2] < fitArgs.srcH

\* A scaledown of a source that is smaller than the box, and one of a source
\* that is larger
C8_Witness ==
    /\ pc = "fit.drawn" /\ FitMode = s_scaledown
    /\ fitArgs.srcW < fitArgs.width /\ fitArgs.srcH < fitArgs.height
    /\ Size(fitRes.drawn[1]) = <<fitArgs.srcW, fitArgs.srcH>>

C8_ShrinkWitness ==
    /\ pc = "fit.drawn" /\ FitMode = s_scaledown
    /\ fitArgs.srcW > fitArgs.width /\ fitArgs.width > 0 /\ fitArgs.height > 0
    /\ fitRes.drawn[1].w = fitArgs.width

\* C9: cover, squeeze, pad and crop draw an image of exactly the requested
\* width and height, whatever the size of the source.
C9_ExactSize ==
    (pc = "fit.drawn" /\ FitMode \in {s_cover, s_squeeze, s_pad, s_crop}) =>
        /\ fitRes.bounds[1] = <<fitArgs.width, fitArgs.height>>
        /\ Size(fitRes.drawn[1]) = <<fitArgs.width, fitArgs.height>>
        /\ DOMAIN fitRes.drawn[1].px = Pixels(<<fitArgs.width, fitArgs.height>>)

\* A crop of a source smaller than the box, and a pad of a 4x2 source into 2x2
C9_Witness ==
    /\ pc = "fit.drawn" /\ FitMode = s_crop
    /\ fitArgs.srcW < fitArgs.width /\ fitArgs.srcH < fitArgs.height
    /\ Size(fitRes.drawn[1]) = <<fitArgs.width, fitArgs.height>>

C9_PadWitness ==
    /\ pc = "fit.drawn" /\ FitMode = s_pad
    /\ fitArgs.srcW = 4 /\ fitArgs.srcH = 2 /\ fitArgs.width = 2 /\ fitArgs.height = 2
    /\ Size(fitRes.drawn[1]) = <<2, 2>>

-----------------------------------------------------------------------------
\* Pad mode

\* The raster the pad filter of a served request drew
PadRaster == stages[CHOOSE i \in 1..Len(Built) : Built[i].kind = "pad"]

\* The pixels of a raster that show the source
Covered(r) == {p \in DOMAIN r.px : r.px[p].img}

\* The background the request asks for: its background option, else opaque white
RequestedBackground ==
    IF Supplies(s_background) THEN parseBackgroundColor(Supplied(s_background)).val[1]
    ELSE RGBA(255, 255, 255, 255)

\* The covered pixels are a rectangle in the middle of the raster: the
\* margins on opposite sides differ by one pixel at most
Centred(r) ==
    \E x0 \in 0..r.w, x1 \in 0..r.w, y0 \in 0..r.h, y1 \in 0..r.h :
        /\ Covered(r) = {p \in DOMAIN r.px : x0 <= p[1] /\ p[1] < x1 /\ y0 <= p[2] /\ p[2] < y1}
        /\ x0 < x1 /\ y0 < y1
        /\ r.w - x1 - x0 \in {0, 1} /\ r.h - y1 - y0 \in {0, 1}

\* C10: the pad filter of a served request draws the source centred in the
\* box of the descriptor, and every pixel the source does not cover has the
\* background of the request, opaque white when the request names none.
C10_PadBackground ==
    (pc = "done" /\ Supplies(s_fit) /\ Supplied(s_fit) = s_pad) =>
        /\ Size(PadRaster) = <<dest[1].Width, dest[1].Height>>
        /\ Centred(PadRaster)
        /\ \A p \in DOMAIN PadRaster.px \ Covered(PadRaster) :
              PadRaster.px[p].c = RequestedBackground

-----------------------------------------------------------------------------
\* Width alone

\* The request sizes the image with a width and nothing else: no height, no
\* fit, and no rotation or radius after it
WidthOnly ==
    /\ Supplies(s_width) /\ ~Supplies(s_height) /\ ~Supplies(s_fit)
    /\ ~Supplies(s_rotate) /\ ~Supplies(s_radius)

\* h is the height that keeps the aspect ratio of the source at width w, to
\* the pixel
AutoHeight(w, h) ==
    /\ h * src[1].w - w * src[1].h < src[1].w
    /\ w * src[1].h - h * src[1].w < src[1].w

\* C11: a served request whose only sizing option is width=N gives an image
\* of width N whose height follows from the aspect ratio of the source.
C11_WidthAutoHeight ==
    (pc = "done" /\ WidthOnly) =>
        /\ encoded[1].raster.w = dest[1].Width
        /\ AutoHeight(encoded[1].raster.w, encoded[1].raster.h)

-----------------------------------------------------------------------------
\* Colour values

\* The value is one rgb(...) or rgba(...) expression and nothing else
CompleteRGB(s) ==
    /\ MatchRGBAt(s, 1).ok
    /\ \A i \in 1..Len(s) : s[i] = ")" <=> i = Len(s)

\* The channels of the expression as they are written
Written == MatchRGBAt(callArg, 1)

Clamp255(x) == IF x > 255 THEN 255 ELSE x

\* An alpha written with a decimal point, from 0.0 to 1.0
DecimalAlpha(a) ==
    /\ \E i \in 1..Len(a) : a[i] = "."
    /\ ParseFloat(a).ok /\ ParseFloat(a).val <= Unit

\* An alpha written as an integer from 0 to 255
IntegerAlpha(a) == AllDigits(a) /\ Len(a) > 0 /\ Atoi(a).val <= 255

\* 255 times a, to the nearest integer
ScaledAlpha(a) == (ParseFloat(a).val * 255 + Unit \div 2) \div Unit

ReturnedColor == callRes[1].val[1]

\* C12: an rgb or rgba expression parses to its three channels, none above
\* 255, with a decimal alpha from 0.0 to 1.0 scaled by 255 and an integer
\* alpha from 0 to 255 as it is written; rgba(0,0,0,0.5) is {0,0,0,128}, #fff
\* is {255,255,255,255} and red is {255,0,0,255}.
C12_AlphaScaled ==
    pc = "color.returned" =>
        /\ CompleteRGB(callArg) =>
              /\ callRes[1].val # Nil
              /\ ReturnedColor[1] = Clamp255(Atoi(Written.m1).val)
              /\ ReturnedColor[2] = Clamp255(Atoi(Written.m2).val)
              /\ ReturnedColor[3] = Clamp255(Atoi(Written.m3).val)
              /\ DecimalAlpha(Written.m4) => ReturnedColor[4] = ScaledAlpha(Written.m4)
              /\ IntegerAlpha(Written.m4) => ReturnedColor[4] = Atoi(Written.m4).val
        /\ callArg = <<"r", "g", "b", "a", "(", "0", ",", "0", ",", "0", ",", "0", ".", "5", ")">>
              => callRes[1].val = Ptr(RGBA(0, 0, 0, 128))
        /\ callArg = <<"#", "f", "f", "f">> => callRes[1].val = Ptr(RGBA(255, 255, 255, 255))
        /\ callArg = s_red => callRes[1].val = Ptr(RGBA(255, 0, 0, 255))

\* The value after URL decoding
Decoded == QueryUnescape(callArg)

\* # and exactly 3, 6 or 8 hex digits
HexForm(s) ==
    /\ Len(s) \in {4, 7, 9} /\ s[1] = "#"
    /\ \A i \in 2..Len(s) : IsHex(s[i])

\* One of the three forms of a colour: hex digits, a name of the table (in
\* either case), or one rgb or rgba expression
SupportedColor(s) ==
    \/ HexForm(s)
    \/ \E i \in 1..Len(NamedColors) : NamedColors[i][1] = ToLower(s)
    \/ CompleteRGB(s)

\* C13: the colour parser returns an error and no colour for every value
\* that, URL-decoded, is none of the three forms; an rgb expression with
\* characters before or after it and a # with another number of digits or
\* with other digits are among these.
C13_UnsupportedRejected ==
    (pc = "color.returned" /\ ~(Decoded.ok /\ SupportedColor(Decoded.val))) =>
        callRes[1].val = Nil /\ callRes[1].err # "none"

-----------------------------------------------------------------------------
\* Rotate angles

\* The shortcuts and their angles, in degrees
RotateShortcuts ==
    << <<s_90, 90>>, <<s_cw, 90>>, <<s_right, 90>>, <<s_180, 180>>, <<s_flip, 180>>,
       <<s_270, 270>>, <<s_m90, 270>>, <<s_ccw, 270>>, <<s_left, 270>>, <<<<"0">>, 0>> >>

ShortcutOf(v) == {i \in 1..Len(RotateShortcuts) : RotateShortcuts[i][1] = ToLower(TrimSpace(v))}

\* a and b are the same angle, to a ten-thousandth of a degree
SameAngle(a, b) ==
    \/ (a - b) % (360 * Unit) <= Unit \div 10000
    \/ (b - a) % (360 * Unit) <= Unit \div 10000

\* C14: a shortcut gives its angle whatever it would be as a number; every
\* other number, of either sign, gives the same angle in [0, 360), never 360;
\* every other value gives an error.
C14_RotateNormalized ==
    pc = "rotate.returned" =>
        IF ShortcutOf(callArg) # {}
        THEN \A i \in ShortcutOf(callArg) :
                 callRes[1] = [val |-> RotateShortcuts[i][2] * Unit, err |-> "none"]
        ELSE IF ParseFloat(callArg).ok
        THEN /\ callRes[1].err = "none"
             /\ callRes[1].val >= 0 /\ callRes[1].val < 360 * Unit
             /\ SameAngle(callRes[1].val, ParseFloat(callArg).val)
        ELSE callRes[1].err # "none"

-----------------------------------------------------------------------------
\* Strengths

\* The documented range of a numeric option, in units of 10^-FracDigits
DocumentedRange(t) ==
    CASE t = "Blur" -> <<Unit, 250 * Unit>>
      [] t = "Brightness" -> <<-100 * Unit, 100 * Unit>>
      [] t = "Contrast" -> <<-100 * Unit, 100 * Unit>>
      [] t = "Saturation" -> <<-100 * Unit, 500 * Unit>>
      [] t = "Gamma" -> <<Unit \div 10, 2 * Unit>>
      [] t = "Sharpen" -> <<Unit \div 2, (3 * Unit) \div 2>>

\* The filter getFilters built for the option, after the implicit crop fit
StrengthFilter == callRes[1].val[1][Len(callRes[1].val[1])]

\* C15: whatever the value of a numeric option, getFilters does not fail and
\* hands the primitive a strength inside the documented range of the option.
C15_StrengthInRange ==
    pc = "strength.returned" =>
        /\ callRes[1].err = NoError
        /\ StrengthFilter.op = callArg.t
        /\ StrengthFilter.val >= DocumentedRange(callArg.t)[1]
        /\ StrengthFilter.val <= DocumentedRange(callArg.t)[2]

-----------------------------------------------------------------------------
\* Substitution of template variables

\* The token of a variable of the map begins at position i of s
VariableAt(s, i, variables) ==
    {k \in DOMAIN variables :
        i + Len(k) + 3 <= Len(s) /\ SubSeq(s, i, i + Len(k) + 3) = s_open \o k \o s_close}

\* s with every {{key}} of a key of the map replaced by its value, once,
\* from position i on
RECURSIVE SubstitutedOnce(_, _, _)
SubstitutedOnce(s, i, variables) ==
    IF i > Len(s) THEN <<>>
    ELSE IF VariableAt(s, i, variables) # {}
    THEN LET k == CHOOSE k \in VariableAt(s, i, variables) : TRUE
         IN  variables[k] \o SubstitutedOnce(s, i + Len(k) + 4, variables)
    ELSE <<s[i]>> \o SubstitutedOnce(s, i + 1, variables)

\* C16: either substitution gives the node of the template text in which
\* every {{key}} of a key of the map is replaced by its value and every
\* other token is left as it is, once and before the JSON is parsed; the
\* template of {{name}} with name = Ada gives the text Ada.
C16_SubstitutedOnce ==
    pc \in {"substitute.regexp", "substitute.template"} =>
        callRes[1] = unmarshalToRootNode(SubstitutedOnce(callArg.data, 1, callArg.vars))

-----------------------------------------------------------------------------
\* C17: template rendering validates the root canvas size on both axes: it
\* fails with the invalid canvas size error, drawing and encoding nothing,
\* whenever the root's width or the root's height is <= 0 or > 2048, and
\* proceeds only when both are in (0, 2048].

CanvasInRange(n) == n > 0 /\ n <= 2048

RootWidth == callArg.root.Attrs.Width

RootHeight == callArg.root.Attrs.Height

Rendered == pc = "template.returned" /\ callArg.env.found

C17_CanvasValidated ==
    Rendered =>
        IF CanvasInRange(RootWidth) /\ CanvasInRange(RootHeight)
        THEN callRes[1].err # s_InvalidCanvasSize
        ELSE /\ callRes[1].err = s_InvalidCanvasSize
             /\ callRes[1].buf = Nil
             /\ callRes[1].visited = <<>>
             /\ callRes[1].drawn = <<>>

-----------------------------------------------------------------------------
\* C18: the template walk visits nodes depth-first in document order: a node
\* whose className is neither Image nor Text is not drawn itself but every
\* one of its children is visited, Image and Text nodes are drawn in the
\* order they appear, and the first node that fails stops the walk so that no
\* PNG is returned.

RECURSIVE ValidPosition(_, _)
ValidPosition(node, p) ==
    \/ p = <<>>
    \/ /\ Head(p) \in 1..Len(node.Children)
       /\ ValidPosition(node.Children[Head(p)], Tail(p))

RECURSIVE NodeAt(_, _)
NodeAt(node, p) == IF p = <<>> THEN node ELSE NodeAt(node.Children[Head(p)], Tail(p))

Positions ==
    {p \in UNION {[1..n -> 1..MaxChildren] : n \in 0..3} : ValidPosition(callArg.root, p)}

IsDrawable(node) == node.ClassName \in {"Image", "Text"}

\* Every node above the position passes the walk on to its children
Reached(p) ==
    \A k \in 0..(Len(p) - 1) : ~IsDrawable(NodeAt(callArg.root, SubSeq(p, 1, k)))

Drawables == {p \in Positions : Reached(p) /\ IsDrawable(NodeAt(callArg.root, p))}

\* p comes before q in the document
DocBefore(p, q) ==
    \E k \in 1..Len(q) :
        /\ k <= Len(p) + 1
        /\ SubSeq(p, 1, k - 1) = SubSeq(q, 1, k - 1)
        /\ (k = Len(p) + 1 \/ (k <= Len(p) /\ p[k] < q[k]))

FetchFails(node) ==
    node.ClassName = "Image" /\ node.Attrs.Path # <<>> /\ node.Attrs.Path \in callArg.env.missing

FontFails(node) == node.ClassName = "Text" /\ ~callArg.env.font

NodeFails(p) == FetchFails(NodeAt(callArg.root, p)) \/ FontFails(NodeAt(callArg.root, p))

HasDrawing(p) ==
    ~NodeFails(p) /\ (NodeAt(callArg.root, p).ClassName = "Image" =>
                          NodeAt(callArg.root, p).Attrs.Path # <<>>)

BeforeFailure(p) == \A q \in Drawables : DocBefore(q, p) => ~NodeFails(q)

InDocumentOrder(s) == \A k, l \in 1..Len(s) : k < l => DocBefore(s[k], s[l])

Walked == Rendered /\ callRes[1].err # s_InvalidCanvasSize

C18_WalkInDocumentOrder ==
    Walked =>
        /\ InDocumentOrder(callRes[1].visited)
        /\ InDocumentOrder(callRes[1].drawn)
        /\ \A p \in Positions :
               (\E k \in 1..Len(callRes[1].visited) : callRes[1].visited[k] = p)
                   <=> (p \in Drawables /\ BeforeFailure(p))
        /\ \A p \in Positions :
               (\E k \in 1..Len(callRes[1].drawn) : callRes[1].drawn[k] = p)
                   <=> (p \in Drawables /\ BeforeFailure(p) /\ HasDrawing(p))
        /\ (callRes[1].buf = Nil) <=> (\E p \in Drawables : NodeFails(p))
        /\ callRes[1].buf # Nil => callRes[1].buf[1].drawn = callRes[1].drawn

\* A walk that went into a layer, drew there, and stopped at a failing node
\* with a later node left unvisited
C18_Witness ==
    /\ Walked
    /\ callRes[1].buf = Nil
    /\ \E k \in 1..Len(callRes[1].drawn) : Len(callRes[1].drawn[k]) = 2
    /\ \E p \in Drawables : ~BeforeFailure(p)

-----------------------------------------------------------------------------
\* C19: no fetch or store ever touches a location outside the configured base
\* root: every path that contains a ".." segment or (where disallowed) is
\* absolute is rejected before any file or object is opened, created or
\* written, for the local source, the object-store source and the template
\* source alike.

LocalCall ==
    pc \in {"source.local.GetImage", "source.local.UploadImage", "source.local.GetTemplate"}

S3Call == pc \in {"source.s3.GetImage", "source.s3.UploadImage", "source.s3.GetTemplate"}

HasDotDotSegment(path) ==
    \E k \in 1..Len(Split(path, "/")) : Split(path, "/")[k] = <<".", ".">>

RECURSIVE Walk(_, _, _)
\* The directory the operating system reaches from dir along the elements
Walk(segs, i, dir) ==
    IF i > Len(segs) THEN dir
    ELSE IF segs[i] \in {<<>>, <<".">>} THEN Walk(segs, i + 1, dir)
    ELSE IF segs[i] = <<".", ".">>
    THEN Walk(segs, i + 1, IF dir = <<>> THEN dir ELSE SubSeq(dir, 1, Len(dir) - 1))
    ELSE Walk(segs, i + 1, Append(dir, segs[i]))

Absolute(path) == Len(path) > 0 /\ path[1] = "/"

InsideBase(loc) ==
    /\ Len(loc) > 0 /\ loc[1] = "/"
    /\ Len(Walk(Split(loc, "/"), 1, <<>>)) >= 1
    /\ Walk(Split(loc, "/"), 1, <<>>)[1] = <<"b">>

RECURSIVE ClimbsAbove(_, _, _)
\* Some ".." of the elements leads above the directory the path starts in
ClimbsAbove(segs, i, depth) ==
    IF i > Len(segs) THEN FALSE
    ELSE IF segs[i] \in {<<>>, <<".">>} THEN ClimbsAbove(segs, i + 1, depth)
    ELSE IF segs[i] = <<".", ".">> THEN depth = 0 \/ ClimbsAbove(segs, i + 1, depth - 1)
    ELSE ClimbsAbove(segs, i + 1, depth + 1)

Escapes(path) == ~Absolute(path) /\ ClimbsAbove(Split(path, "/"), 1, 0)

PathRejected ==
    /\ callRes[1].err \in {"invalid image path", "invalid template path"}
    /\ callRes[1].touched = <<>>

\* os.MkdirAll makes the directories that lead to the base root as well
LeadsToBase(loc) == Absolute(loc) /\ Walk(Split(loc, "/"), 1, <<>>) = <<>>

StaysInside ==
    \A k \in 1..Len(callRes[1].touched) :
        /\ LocalCall =>
               \/ InsideBase(callRes[1].touched[k].loc)
               \/ callRes[1].touched[k].op = "os.MkdirAll" /\ LeadsToBase(callRes[1].touched[k].loc)
        /\ S3Call => ~HasDotDotSegment(callRes[1].touched[k].loc)

\* The dots of the path are all "." and ".." elements
PlainNames(path) ==
    \A k \in 1..Len(Split(path, "/")) :
        \/ Split(path, "/")[k] \in {<<".">>, <<".", ".">>}
        \/ \A i \in 1..Len(Split(path, "/")[k]) : Split(path, "/")[k][i] # "."

-----------------------------------------------------------------------------
\* C20: a source image is processed only if its byte length is at most the
\* configured maximum file size (checked before decode) and both its pixel
\* dimensions are at most the configured maximum dimension (checked after
\* decode); when the configuration file does not set them the limits are the
\* documented defaults 8192 px and 52428800 bytes, so with default
\* configuration an in-limit image is fetched successfully.

ImageFetched ==
    /\ pc \in {"source.local.GetImage", "source.s3.GetImage"}
    /\ callArg.file # Nil
    /\ ~PathRejected

ConfiguredOr(key, default) ==
    IF key \in DOMAIN callArg.cfgFile THEN callArg.cfgFile[key] ELSE default

MaxSizeInForce == ConfiguredOr("images.max_file_size_in_bytes", 52428800)

MaxDimensionInForce == ConfiguredOr("images.max_image_dimension", 8192)

InLimits ==
    /\ callArg.file[1].size <= MaxSizeInForce
    /\ callArg.file[1].w <= MaxDimensionInForce
    /\ callArg.file[1].h <= MaxDimensionInForce

C20_LimitsAndDefaults ==
    ImageFetched =>
        /\ callArg.file[1].size > MaxSizeInForce => callRes[1].err = "image file too large"
        /\ callArg.file[1].ok => (callRes[1].val # Nil <=> InLimits)
        /\ callRes[1].val # Nil => callArg.file[1].ok /\ InLimits

-----------------------------------------------------------------------------
\* C21: transform and render calls share no mutable state: for every
\* interleaving of two concurrent calls, each call's destination descriptor,
\* operation sequence and output equal what that call produces when run
\* alone, and nothing allocated for a call (descriptor, operation set, node
\* tree) is retained or read by the other call.

Ended(i) == calls[i].at \in {"rejected", "failed", "done"}

\* What a transformation call ended with
TransformOutcome(i) ==
    [err |-> calls[i].err,
     dest |-> IF calls[i].dest = 0 THEN Nil ELSE Ptr(heap[calls[i].dest]),
     filters |-> calls[i].filters, stages |-> calls[i].stages, encoded |-> calls[i].encoded]

\* What the same request ends with when nothing else runs
AloneOutcomes(c) ==
    IF c.optionsStr = <<>> \/ getContextFromString(c.optionsStr).err # NoError
    THEN {[err |-> getContextFromString(c.optionsStr).err, dest |-> Nil, filters |-> Nil,
           stages |-> <<>>, encoded |-> Nil]}
    ELSE {Transform(c.src, getContextFromString(c.optionsStr).dest[1],
                    getContextFromString(c.optionsStr).tr[1], order) :
              order \in WalkOrders(getContextFromString(c.optionsStr).tr[1])}

AsAlone(i) ==
    IF callArg[i].kind = "transform" THEN TransformOutcome(i) \in AloneOutcomes(callArg[i])
    ELSE calls[i].rendered = Ptr(RenderTemplate(callArg[i].env[1], callArg[i].root[1]))

\* The addresses a call holds
Held(i) == {calls[i].dest, calls[i].root} \ {0}

C21_CallsIndependent ==
    pc = "concurrent" =>
        /\ Held(1) \cap Held(2) = {}
        /\ \A i \in 1..2 : Ended(i) => AsAlone(i)

\* Two different transformation requests under way together: the second call
\* parsed first and is not yet encoded when the first call, parsed after it,
\* has been served
C21_Witness ==
    /\ pc = "concurrent"
    /\ callArg[1].kind = "transform" /\ callArg[2].kind = "transform"
    /\ callArg[1].optionsStr # callArg[2].optionsStr
    /\ calls[1].at = "done" /\ calls[2].at = "drawn"
    /\ calls[1].dest = 2 /\ calls[2].dest = 1
    /\ heap[1].Width # heap[2].Width

-----------------------------------------------------------------------------
\* C22: the parsed operation set holds at most one entry per operation kind:
\* when the option string repeats a kind, the entry carries the value of the
\* last token of that kind, and the built sequence contains exactly one fit
\* operation (the explicit one if given, otherwise the implicit crop), never
\* two.

OperationKinds ==
    { <<s_flip, "Flip">>, <<s_blur, "Blur">>, <<s_brightness, "Brightness">>,
      <<s_contrast, "Contrast">>, <<s_fit, "Fit">>, <<s_gamma, "Gamma">>,
      <<s_rotate, "Rotate">>, <<s_saturation, "Saturation">>, <<s_sharpen, "Sharpen">>,
      <<s_radius, "BorderRadius">> }

\* The number of tokens of the request for the key
TokensFor(key) ==
    Cardinality({i \in 1..Len(RequestTokens) :
                    Len(Split(RequestTokens[i], "=")) = 2 /\ TokenKey(RequestTokens[i]) = key})

\* The filters a fit mode is built as
FitKinds(mode) ==
    CASE mode = s_scaledown -> {"scaleDown"}
      [] mode = s_crop -> {"crop"}
      [] mode = s_pad -> {"pad"}
      [] mode = s_cover -> {"ResizeToFill"}
      [] mode = s_contain -> {"ResizeToFit", "Resize"}
      [] mode = s_squeeze -> {"Resize"}
      [] OTHER -> {}

FitsBuilt == {i \in 1..Len(Built) : Built[i].op = "Fit"}

C22_OneEntryPerKind ==
    /\ (pc \in {"parsed", "done", "failed"} /\ trValues # Nil) =>
           /\ DOMAIN trValues[1] = {k[2] : k \in {x \in OperationKinds : Supplies(x[1])}}
           /\ \A k \in OperationKinds :
                  Supplies(k[1]) => trValues[1][k[2]] = Supplied(k[1])
    /\ pc = "done" =>
           /\ Cardinality(FitsBuilt) = 1
           /\ \A i \in FitsBuilt :
                  Built[i].kind \in (IF Supplies(s_fit) THEN FitKinds(Supplied(s_fit))
                                     ELSE {"crop"})

\* A served request that names the fit twice, with two different modes
C22_Witness ==
    /\ pc = "done"
    /\ TokensFor(s_fit) = 2
    /\ TokenValue(RequestTokens[1]) # TokenValue(RequestTokens[2])
    /\ Cardinality(FitsBuilt) = 1

-----------------------------------------------------------------------------
\* Crop mode against scaledown and cover

\* The raster a filter gives when it is the whole chain: g.Bounds of the
\* source, a new image of these bounds, g.Draw
AppliedAlone(f, b) == FilterDraw(f, NewRGBA(FilterBounds(f, b)), SourceRaster(b))

SourceBounds == <<fitArgs.srcW, fitArgs.srcH>>

SourceWithinBox == fitArgs.srcW <= fitArgs.width /\ fitArgs.srcH <= fitArgs.height

\* C23: crop mode gives the result scaledown gives for the same source and
\* box when the source is no larger than the box in both dimensions, and the
\* result cover gives when the source exceeds the box in either dimension.
C23_CropAsScaleDownOrCover ==
    (pc = "fit.drawn" /\ FitMode = s_crop) =>
        fitRes.drawn[1] =
            AppliedAlone(FitFilter(IF SourceWithinBox THEN "scaleDown" ELSE "ResizeToFill",
                                   fitArgs.width, fitArgs.height, Transparent),
                         SourceBounds)

-----------------------------------------------------------------------------
\* Border-radius resolution

RoundDrawn == pc = "round.drawn"

Corners == {callRes.filter.tl, callRes.filter.tr, callRes.filter.bl, callRes.filter.br}

\* min(W, H) of the raster drawn, in pixels
ShortSide == Min(callArg.w, callArg.h)

\* The parsed value in pixels: a percentage is taken of min(W, H)
InPixels(v) == IF v.IsPercent THEN (v.Value * ShortSide) \div 100 ELSE v.Value

\* The radius a newly built filter for the value resolves to on a w x h raster
ResolvedFor(value, w, h) ==
    resolveRadii(<<parseBorderRadiusValue(value).val[1]>>, borderRadiusFilter(1), w, h)[1].Value

C24_ClampWitness ==
    /\ RoundDrawn
    /\ callArg.value = <<"9">> /\ callArg.w = 5 /\ callArg.h = 6
    /\ \A a \in Corners : 2 * heap[a].Value = 5 * Unit

-----------------------------------------------------------------------------
\* The rounded-corner mask.  Lengths are in mask units.

Mask == callRes.mask[1]

\* The resolved radius, the same for the four corners
Radius == MaskLength(heap[callRes.filter.tl].Value)

\* The centre of the corner circle nearest to a pixel
CircleCentre(p) ==
    <<IF p[1] * MaskUnit < Radius THEN Radius ELSE callArg.w * MaskUnit - Radius,
      IF p[2] * MaskUnit < Radius THEN Radius ELSE callArg.h * MaskUnit - Radius>>

InCornerBox(p) ==
    /\ p[1] * MaskUnit < Radius \/ p[1] * MaskUnit >= callArg.w * MaskUnit - Radius
    /\ p[2] * MaskUnit < Radius \/ p[2] * MaskUnit >= callArg.h * MaskUnit - Radius

\* The square of the distance of a pixel to the centre of its corner circle
SquaredDistance(p) ==
    (p[1] * MaskUnit - CircleCentre(p)[1]) ^ 2 + (p[2] * MaskUnit - CircleCentre(p)[2]) ^ 2

\* d <= r - 1, r - 1 < d <= r, d > r
WellInside(p) == Radius >= MaskUnit /\ SquaredDistance(p) <= (Radius - MaskUnit) ^ 2

OnEdge(p) == ~WellInside(p) /\ SquaredDistance(p) <= Radius ^ 2

\* C25: the mask is 255 at every pixel outside the four corner boxes; inside
\* a corner box it is 255 when the distance d to the centre of the corner
\* circle is at most r - 1, strictly between 0 and 255 and decreasing in d
\* when r - 1 < d <= r (a pixel at d = r included), and 0 when d > r.
C25_MaskAlpha ==
    RoundDrawn =>
        \A p \in DOMAIN Mask :
            /\ ~InCornerBox(p) => Mask[p] = 255
            /\ (InCornerBox(p) /\ WellInside(p)) => Mask[p] = 255
            /\ (InCornerBox(p) /\ OnEdge(p)) =>
                   /\ 0 < Mask[p] /\ Mask[p] < 255
                   /\ \A q \in DOMAIN Mask :
                          (InCornerBox(q) /\ OnEdge(q)
                           /\ SquaredDistance(q) > SquaredDistance(p)) => Mask[q] <= Mask[p]
            /\ (InCornerBox(p) /\ SquaredDistance(p) > Radius ^ 2) => Mask[p] = 0

-----------------------------------------------------------------------------
\* Compositing the mask

Drawn == callRes.dst[1]

\* C26: every pixel drawn keeps the source colour with alpha
\* maskAlpha * srcAlpha / 255: at mask alpha 255 the source alpha is kept, an
\* opaque source pixel at mask alpha m gets alpha m, and at mask alpha 0 the
\* pixel is transparent.
C26_MaskComposited ==
    RoundDrawn =>
        \A p \in DOMAIN Drawn :
            /\ Drawn[p][4] = (Mask[p] * callArg.colour[4]) \div 255
            /\ Mask[p] > 0 => SubSeq(Drawn[p], 1, 3) = SubSeq(callArg.colour, 1, 3)
            /\ Mask[p] = 255 => Drawn[p][4] = callArg.colour[4]
            /\ callArg.colour[4] = 255 => Drawn[p][4] = Mask[p]
            /\ Mask[p] = 0 => Drawn[p][4] = 0

-----------------------------------------------------------------------------
\* The parsed value across a draw

\* C27: resolving the radius writes nothing into the parsed value: after a
\* draw the BorderRadiusValue the filter was built over has the magnitude and
\* the isPercent the parser gave it, so a draw on a raster of another size
\* resolves what a newly parsed filter resolves.
C27_ParsedValueKept ==
    RoundDrawn =>
        /\ \A a \in Corners : heap[a] = callRes.parsed
        /\ \A w \in 1..MaxSide, h \in 1..MaxSide :
               resolveRadii(heap, callRes.filter, w, h)[callRes.filter.tl].Value
                   = ResolvedFor(callArg.value, w, h)

-----------------------------------------------------------------------------
\* Cancellation

CancelledAt(i, positions) == callRes[i].cancelled /\ callRes[i].at \in positions

\* C28: a call whose context is cancelled before the fetch fetches no raster,
\* and a call whose context is cancelled at any point before the encode step
\* does not run it and returns no encoded bytes; a pixel pass in progress may
\* complete.
C28_CancellationHonoured ==
    (pc = "concurrent" /\ callRes # Nil) =>
        \A i \in 1..2 :
            /\ CancelledAt(i, {"request", "parsed"}) => calls[i].img = Nil
            /\ CancelledAt(i, {"request", "parsed", "fetched", "defaults", "filters", "drawn"}) =>
                   calls[i].encoded = Nil /\ calls[i].at # "done"
            /\ CancelledAt(i, {"request", "loaded"}) =>
                   calls[i].rendered = Nil /\ calls[i].at # "done"

-----------------------------------------------------------------------------
\* The size of a scaledown

\* C29: for a source of at least 1x1 and a box of at least 1x1 the scaledown
\* fit gives an output at least 1 wide and 1 high: truncating the scaled
\* dimensions never gives an empty raster.
C29_ScaleDownNotEmpty ==
    (pc = "fit.drawn" /\ FitMode = s_scaledown /\ fitArgs.width >= 1 /\ fitArgs.height >= 1
     /\ fitArgs.srcW >= 1 /\ fitArgs.srcH >= 1) =>
        /\ fitRes.bounds[1][1] >= 1 /\ fitRes.bounds[1][2] >= 1
        /\ fitRes.drawn[1].w >= 1 /\ fitRes.drawn[1].h >= 1

-----------------------------------------------------------------------------
\* Failed store calls

StoreCalled == pc \in {"source.local.UploadImage", "source.s3.UploadImage"}

\* C30: a store call that fails, whatever the reason, leaves the storage as
\* it was before the call: no new, empty or partial file is at the target
\* path, and a file that was there keeps its content.
C30_FailedStoreChangesNothing ==
    (StoreCalled /\ callRes[1].err # s_NoErr) =>
        storedAfter(callArg.file, callArg.img, callRes[1]) = callArg.file

=============================================================================
